---- MODULE Spec2Model ----
(***************************************************************************)
(* A model of the response stores of jr_goresponse: ResponsePack (map of   *)
(* URL -> round -> *Response with counters) and CompressResponsePack (map  *)
(* of URL -> round -> gzip blob), both guarded by a sync.RWMutex, with     *)
(* their single-item operations run by concurrent actors and their batch   *)
(* operations run by worker goroutines.                                    *)
(***************************************************************************)
EXTENDS Integers, Sequences, FiniteSets, TLC

(* ------------------------------ bounds --------------------------------- *)

\* AddResponse calls that may be started in one behaviour
MaxAdds == 2
\* longest Body of a record handed to Compress
MaxBody == 3
\* longest header value of a record handed to Compress
MaxHeader == 2
\* caller-side field writes to a record in one behaviour
MaxSets == 1
\* largest value runtime.NumCPU() takes
MaxCPU == 2
\* longest slice handed to a batch operation
MaxBatch == 3
\* longest URL list handed to BatchGetResponse or BatchDeleteResponse
MaxUrls == 2

(* ------------------------------ values --------------------------------- *)

Nil == "nil"
NoProc == 0

\* the goroutines of the callers: two of them run the single-item operations
\* against each other, the first one alone runs the batch operations
Actors == {1, 2}

Max(a, b) == IF a > b THEN a ELSE b

\* the goroutines a batch operation starts: up to NumCPU of them for a batch
\* add, one per URL for a batch get or a batch delete
Workers == {100 + i : i \in 1 .. Max(MaxCPU, MaxUrls)}
Procs == Actors \cup Workers

URLs == {"api1", "api2"}
StatusCodes == {200, 404}
RecIds == {"testResp1", "testResp2", "testResp3"}
InfoKeys == {"test_key"}
InfoVals == {"test_value", "updated_value"}

\* codes.IsSuccess: the 2xx range
IsSuccess(code) == code >= 200 /\ code <= 299

\* the value of a Response struct; Headers is the value of its one header,
\* as the bytes of the Go string, Body and RawResponse are byte slices
MkResponse(url, code) ==
    [Method |-> "GET", StatusCode |-> code, Url |-> url, Host |-> "example.com",
     Headers |-> <<106>>, Body |-> <<123, 125>>, BodyLength |-> 2,
     RawResponse |-> <<>>]

\* the records the callers hold when the store is built
Fixtures ==
    [r \in RecIds |-> CASE r = "testResp1" -> MkResponse("api1", 200)
                        [] r = "testResp2" -> MkResponse("api2", 200)
                        [] r = "testResp3" -> MkResponse("api1", 404)]

\* "round_%d"
RoundKey(n) == <<"round", n>>

\* the empty Go map
EmptyMap == <<>>

\* m[k] = v on a Go map
MapPut(m, k, v) == [x \in (DOMAIN m) \cup {k} |-> IF x = k THEN v ELSE m[x]]

\* variation: only the newest round of k is deleted
MapDeleteOneRound(m, k) ==
    LET n == Cardinality(DOMAIN m[k])
    IN  IF n <= 1 THEN [x \in (DOMAIN m) \ {k} |-> m[x]]
        ELSE [m EXCEPT ![k] = [r \in (DOMAIN m[k]) \ {RoundKey(n)} |-> m[k][r]]]

\* variation: the rounds of k are deleted and k stays, with no round
MapDeleteKeepsKey(m, k) == [m EXCEPT ![k] = EmptyMap]

\* delete(m, k) on a Go map
MapDelete(m, k) == [x \in (DOMAIN m) \ {k} |-> m[x]]

\* variation: the URLs are counted, not their rounds
CountKeys(m, todo) == Cardinality(todo)

RECURSIVE SumLen(_, _)
\* the sum of len(inner) over the URLs in todo
SumLen(m, todo) ==
    IF todo = {} THEN 0
    ELSE LET u == CHOOSE x \in todo : TRUE
         IN  Cardinality(DOMAIN m[u]) + SumLen(m, todo \ {u})

\* every order in which a range loop may visit the keys of a map
Orders(S) ==
    {s \in [1 .. Cardinality(S) -> S] : \A i, j \in DOMAIN s : i # j => s[i] # s[j]}

\* the sequences over S of length up to n
SeqsUpTo(S, n) == UNION {[1 .. k -> S] : k \in 0 .. n}

(* ------------------------------ codec ---------------------------------- *)

RECURSIVE B64Enc(_)
\* base64.StdEncoding over a byte sequence: sextets 0..63, 64 is the pad '='
B64Enc(b) ==
    IF Len(b) = 0 THEN <<>>
    ELSE IF Len(b) = 1 THEN
        <<b[1] \div 4, (b[1] % 4) * 16, 64, 64>>
    ELSE IF Len(b) = 2 THEN
        <<b[1] \div 4, (b[1] % 4) * 16 + (b[2] \div 16), (b[2] % 16) * 4, 64>>
    ELSE
        <<b[1] \div 4, (b[1] % 4) * 16 + (b[2] \div 16),
          (b[2] % 16) * 4 + (b[3] \div 64), b[3] % 64>>
        \o B64Enc(SubSeq(b, 4, Len(b)))

RECURSIVE B64Dec(_)
\* base64.StdEncoding decoding of a well-formed sextet sequence
B64Dec(s) ==
    IF Len(s) < 4 THEN <<>>
    ELSE
        LET b1 == s[1] * 4 + (s[2] \div 16)
            b2 == (s[2] % 16) * 16 + (s[3] \div 4)
            b3 == (s[3] % 4) * 64 + s[4]
        IN  IF s[3] = 64 THEN <<b1>>
            ELSE IF s[4] = 64 THEN <<b1, b2>>
            ELSE <<b1, b2, b3>> \o B64Dec(SubSeq(s, 5, Len(s)))

\* a UTF-8 continuation byte
IsCont(b) == b >= 128 /\ b <= 191

\* utf8.DecodeRuneInString: the size of the rune encoded at the head of s,
\* 0 when the head of s is not the UTF-8 encoding of a rune
RuneLen(s) ==
    LET b1 == s[1]
        b2 == IF Len(s) >= 2 THEN s[2] ELSE 0
        b3 == IF Len(s) >= 3 THEN s[3] ELSE 0
        b4 == IF Len(s) >= 4 THEN s[4] ELSE 0
    IN  IF b1 < 128 THEN 1
        ELSE IF b1 >= 194 /\ b1 <= 223 THEN (IF IsCont(b2) THEN 2 ELSE 0)
        ELSE IF b1 >= 224 /\ b1 <= 239 THEN
            (IF /\ IsCont(b2) /\ IsCont(b3)
                /\ (b1 = 224 => b2 >= 160)
                /\ (b1 = 237 => b2 <= 159)
             THEN 3 ELSE 0)
        ELSE IF b1 >= 240 /\ b1 <= 244 THEN
            (IF /\ IsCont(b2) /\ IsCont(b3) /\ IsCont(b4)
                /\ (b1 = 240 => b2 >= 144)
                /\ (b1 = 244 => b2 <= 143)
             THEN 4 ELSE 0)
        ELSE 0

RECURSIVE ToValidUTF8(_)
\* json.Marshal of a string: the string coerced to valid UTF-8, every byte
\* that starts no rune replaced by U+FFFD (EF BF BD)
ToValidUTF8(s) ==
    IF Len(s) = 0 THEN <<>>
    ELSE LET n == RuneLen(s)
         IN  IF n = 0
             THEN <<239, 191, 189>> \o ToValidUTF8(SubSeq(s, 2, Len(s)))
             ELSE SubSeq(s, 1, n) \o ToValidUTF8(SubSeq(s, n + 1, Len(s)))

\* json.Marshal of a Response: []byte fields are written in base64, string
\* values as valid UTF-8 (the method, URL and host modelled are ASCII)
ToJSON(r) ==
    [method |-> r.Method, statusCode |-> r.StatusCode, url |-> r.Url,
     host |-> r.Host, headers |-> ToValidUTF8(r.Headers), body |-> B64Enc(r.Body),
     bodyLength |-> r.BodyLength, rawResponse |-> B64Enc(r.RawResponse)]

\* json.Unmarshal into a Response
FromJSON(j) ==
    [Method |-> j.method, StatusCode |-> j.statusCode, Url |-> j.url,
     Host |-> j.host, Headers |-> j.headers, Body |-> B64Dec(j.body),
     BodyLength |-> j.bodyLength, RawResponse |-> B64Dec(j.rawResponse)]

\* variation: the record is stored with a round suffix in its URL
CompressSuffixed(r) == <<"gzip", ToJSON([r EXCEPT !.Url = "api1--round_1"])>>

\* Response.Compress: gzip over ToJSON
Compress(r) == <<"gzip", ToJSON(r)>>

\* NewResponseFromCompressed: gunzip, then json.Unmarshal
NewResponseFromCompressed(blob) == FromJSON(blob[2])

(* ------------------------------ state ---------------------------------- *)

VARIABLES
    pack,                 \* which constructor built the store under test
    heap,                 \* the caller's Response objects, by pointer
    Responses,            \* ResponsePack.Responses
    Total,                \* ResponsePack.Total
    Success,              \* ResponsePack.Success
    Failure,              \* ResponsePack.Failure
    SuccessRatio,         \* ResponsePack.SuccessRatio, as <<numerator, denominator>>
    FailureRatio,         \* ResponsePack.FailureRatio, as <<numerator, denominator>>
    Info,                 \* ResponsePack.Info
    mu,                   \* ResponsePack.mu
    CompressedResponses,  \* CompressResponsePack.CompressedResponses
    MetaInfo,             \* CompressResponsePack.MetaInfo
    cmu,                  \* CompressResponsePack.mu
    pc,                   \* where each goroutine stands
    arg,                  \* the argument of the call a goroutine is in
    loc,                  \* the locals of the call a goroutine is in
    ret,                  \* what the last call of a goroutine returned
    errCh,                \* the error channel of the batch call in progress
    responseCh,           \* the work queue of the batch call in progress
    resultCh,             \* the result channel of the batch call in progress
    hist,                 \* history: the committed adds, in commit order
    gen,                  \* history: per URL, how many inner maps were discarded
    sets                  \* history: caller-side field writes so far

vars ==
    <<pack, heap, Responses, Total, Success, Failure, SuccessRatio,
      FailureRatio, Info, mu, CompressedResponses, MetaInfo, cmu, pc, arg, loc,
      ret, errCh, responseCh, resultCh, hist, gen, sets>>

plainData == <<Responses, Total, Success, Failure, SuccessRatio, FailureRatio>>
counters == <<Total, Success, Failure, SuccessRatio, FailureRatio>>
plainVars == <<plainData, Info, mu>>
compVars == <<CompressedResponses, MetaInfo, cmu>>
envVars == <<pack, errCh, responseCh, resultCh>>

(* ------------------------------ sync.RWMutex --------------------------- *)

Unlocked == [w |-> NoProc, r |-> {}]

\* Lock() returns only when no writer and no reader holds the mutex
CanLock(m) == m.w = NoProc /\ m.r = {}

\* RLock() returns only when no writer holds the mutex
CanRLock(m) == m.w = NoProc

Lock(m, p) == [m EXCEPT !.w = p]
RLock(m, p) == [m EXCEPT !.r = @ \cup {p}]
Unlock(m, p) == [m EXCEPT !.w = NoProc]
RUnlock(m, p) == [m EXCEPT !.r = @ \ {p}]

(* ------------------------------ goroutines ----------------------------- *)

NoArg == Nil
\* no locals: the empty record
NoLoc == [x \in {} |-> Nil]
NoRet == [op |-> "none", err |-> FALSE]

\* where a goroutine continues when the store operation it called returns
After(p) == IF p \in Actors THEN "idle" ELSE "w_ret"

Goto(p, label) == pc' = [pc EXCEPT ![p] = label]

\* the operation returns: its argument and locals die, its result is kept
Return(p, r) ==
    /\ pc' = [pc EXCEPT ![p] = After(p)]
    /\ arg' = [arg EXCEPT ![p] = NoArg]
    /\ loc' = [loc EXCEPT ![p] = NoLoc]
    /\ ret' = [ret EXCEPT ![p] = r]

AddPcs == {"add_lock", "add_count", "add_check", "add_store",
           "cadd_lock", "cadd_check", "cadd_store"}

\* AddResponse calls begun with a non-nil record
AddsStarted == Len(hist) + Cardinality({p \in Procs : pc[p] \in AddPcs})

Init ==
    /\ pack \in {"ResponsePack", "CompressResponsePack"}
    /\ heap = Fixtures
    /\ Responses = EmptyMap
    /\ Total = 0
    /\ Success = 0
    /\ Failure = 0
    /\ SuccessRatio = <<0, 1>>
    /\ FailureRatio = <<0, 1>>
    /\ Info = EmptyMap
    /\ mu = Unlocked
    /\ CompressedResponses = EmptyMap
    /\ MetaInfo = EmptyMap
    /\ cmu = Unlocked
    /\ pc = [p \in Procs |-> IF p \in Actors THEN "idle" ELSE "unborn"]
    /\ arg = [p \in Procs |-> NoArg]
    /\ loc = [p \in Procs |-> NoLoc]
    /\ ret = [p \in Procs |-> NoRet]
    /\ errCh = <<>>
    /\ responseCh = [buf |-> <<>>, closed |-> FALSE]
    /\ resultCh = <<>>
    /\ hist = <<>>
    /\ gen = [u \in URLs |-> 0]
    /\ sets = 0

(* ------------------------------ the caller ----------------------------- *)

\* the caller writes a field of a record it owns; it does so only while no
\* store operation is running on that record (no caller-side race)
SetField(r) ==
    /\ sets < MaxSets
    /\ \A p \in Procs : pc[p] \in AddPcs => arg[p] # r
    /\ \E u \in URLs, c \in StatusCodes :
          /\ MkResponse(u, c) # heap[r]
          /\ heap' = [heap EXCEPT ![r] = MkResponse(u, c)]
    /\ sets' = sets + 1
    /\ UNCHANGED <<envVars, plainVars, compVars, pc, arg, loc, ret, hist, gen>>

(* ------------------------------ ResponsePack --------------------------- *)

\* variation: p.Total++ placed inside the success branch
NextTotalOnSuccess(total, ok) == IF ok THEN total + 1 ELSE total

\* p.Total++
NextTotal(total, ok) == total + 1

\* if ok { p.Success++ }
NextSuccess(success, ok) == IF ok THEN success + 1 ELSE success

\* else { p.Failure++ }
NextFailure(failure, ok) == IF ok THEN failure ELSE failure + 1

\* the ratio float64(count) / float64(total), left as it was when count is 0
NextRatio(old, count, total) == IF total > 0 /\ count # 0 THEN <<count, total>> ELSE old

\* variation: the round counter starts at 1 instead of 0
NewKeyCountFromOne(round) == RoundKey(round + 2)

\* variation: the key of the newest round is used again
SameKey(round) == RoundKey(round)

\* fmt.Sprintf("round_%d", round+1)
NewKey(round) == RoundKey(round + 1)

\* variation: AddResponse(nil) returns nil
AddEnterNilOk(p, r) ==
    IF r = Nil
    THEN Return(p, [op |-> "add", err |-> FALSE])
    ELSE /\ arg' = [arg EXCEPT ![p] = r]
         /\ Goto(p, "add_lock")
         /\ loc' = [loc EXCEPT ![p] = NoLoc]
         /\ ret' = [ret EXCEPT ![p] = NoRet]

\* ResponsePack.AddResponse entered with record r: the nil check
AddEnter(p, r) ==
    IF r = Nil
    THEN Return(p, [op |-> "add", err |-> TRUE])
    ELSE /\ arg' = [arg EXCEPT ![p] = r]
         /\ Goto(p, "add_lock")
         /\ loc' = [loc EXCEPT ![p] = NoLoc]
         /\ ret' = [ret EXCEPT ![p] = NoRet]

\* CompressResponsePack.AddResponse entered with record r: the nil check and
\* response.Compress(), both before the lock is taken
CAddEnter(p, r) ==
    IF r = Nil
    THEN Return(p, [op |-> "add", err |-> TRUE])
    ELSE /\ arg' = [arg EXCEPT ![p] = r]
         /\ Goto(p, "cadd_lock")
         /\ loc' = [loc EXCEPT ![p] = [blob |-> Compress(heap[r])]]
         /\ ret' = [ret EXCEPT ![p] = NoRet]

\* a caller calls AddResponse of the store it holds
CallAdd(p) ==
    /\ pc[p] = "idle"
    /\ \E r \in RecIds \cup {Nil} :
          /\ r # Nil => AddsStarted < MaxAdds
          /\ IF pack = "ResponsePack" THEN AddEnter(p, r) ELSE CAddEnter(p, r)
    /\ UNCHANGED <<envVars, heap, plainVars, compVars, hist, gen, sets>>

\* variation: AddResponse without p.mu.Lock()
AddLockSkipped(p) ==
    /\ pc[p] = "add_lock"
    /\ Goto(p, "add_count")
    /\ UNCHANGED <<envVars, heap, plainVars, compVars, arg, loc, ret, hist, gen, sets>>

\* p.mu.Lock()
AddLock(p) ==
    /\ pc[p] = "add_lock"
    /\ CanLock(mu)
    /\ mu' = Lock(mu, p)
    /\ Goto(p, "add_count")
    /\ UNCHANGED <<envVars, heap, plainData, Info, compVars, arg, loc, ret,
                   hist, gen, sets>>

\* variation: the lock is released right after the counters, before the commit
AddCountThenUnlock(p) ==
    /\ pc[p] = "add_count"
    /\ LET ok == IsSuccess(heap[arg[p]].StatusCode)
       IN  /\ Success' = NextSuccess(Success, ok)
           /\ Failure' = NextFailure(Failure, ok)
           /\ Total' = NextTotal(Total, ok)
    /\ SuccessRatio' = NextRatio(SuccessRatio, Success', Total')
    /\ FailureRatio' = NextRatio(FailureRatio, Failure', Total')
    /\ mu' = Unlock(mu, p)
    /\ Goto(p, "add_check")
    /\ UNCHANGED <<envVars, heap, Responses, Info, compVars, arg, loc, ret,
                   hist, gen, sets>>

\* variation: only the ratio of the counter that was incremented is computed
AddCountOneRatio(p) ==
    /\ pc[p] = "add_count"
    /\ LET ok == IsSuccess(heap[arg[p]].StatusCode)
       IN  /\ Success' = NextSuccess(Success, ok)
           /\ Failure' = NextFailure(Failure, ok)
           /\ Total' = NextTotal(Total, ok)
           /\ SuccessRatio' = IF ok THEN NextRatio(SuccessRatio, Success', Total')
                                    ELSE SuccessRatio
           /\ FailureRatio' = IF ok THEN FailureRatio
                                    ELSE NextRatio(FailureRatio, Failure', Total')
    /\ Goto(p, "add_check")
    /\ UNCHANGED <<envVars, heap, Responses, Info, mu, compVars, arg, loc, ret,
                   hist, gen, sets>>

\* the counters and the ratios
AddCount(p) ==
    /\ pc[p] = "add_count"
    /\ LET ok == IsSuccess(heap[arg[p]].StatusCode)
       IN  /\ Success' = NextSuccess(Success, ok)
           /\ Failure' = NextFailure(Failure, ok)
           /\ Total' = NextTotal(Total, ok)
    /\ SuccessRatio' = NextRatio(SuccessRatio, Success', Total')
    /\ FailureRatio' = NextRatio(FailureRatio, Failure', Total')
    /\ Goto(p, "add_check")
    /\ UNCHANGED <<envVars, heap, Responses, Info, mu, compVars, arg, loc, ret,
                   hist, gen, sets>>

\* variation: the URL is taken as new at every add
AddCheckAlwaysNew(p) ==
    /\ pc[p] = "add_check"
    /\ loc' = [loc EXCEPT ![p] = [ok |-> FALSE, round |-> 0]]
    /\ Goto(p, "add_store")
    /\ UNCHANGED <<envVars, heap, plainVars, compVars, arg, ret, hist, gen, sets>>

\* _, ok = p.Responses[response.Url], and the count of the rounds when ok
AddCheck(p) ==
    /\ pc[p] = "add_check"
    /\ LET url == heap[arg[p]].Url
           ok == url \in DOMAIN Responses
       IN  loc' = [loc EXCEPT ![p] =
                     [ok |-> ok,
                      round |-> IF ok THEN Cardinality(DOMAIN Responses[url]) ELSE 0]]
    /\ Goto(p, "add_store")
    /\ UNCHANGED <<envVars, heap, plainVars, compVars, arg, ret, hist, gen, sets>>

\* variation: the inner map of the URL is made anew at every add
AddStoreFreshInner(p) ==
    /\ pc[p] = "add_store"
    /\ LET url == heap[arg[p]].Url
           key == IF loc[p].ok THEN NewKey(loc[p].round) ELSE RoundKey(1)
       IN  /\ Responses' = MapPut(Responses, url, MapPut(EmptyMap, key, arg[p]))
           /\ hist' = Append(hist, [url |-> url, key |-> key, rec |-> arg[p],
                                    val |-> heap[arg[p]], gen |-> gen[url]])
    /\ mu' = Unlock(mu, p)
    /\ Return(p, [op |-> "add", err |-> FALSE])
    /\ UNCHANGED <<envVars, heap, counters, Info, compVars, gen, sets>>

\* the record is stored under its round key, the deferred Unlock runs
AddStore(p) ==
    /\ pc[p] = "add_store"
    /\ LET url == heap[arg[p]].Url
           key == IF loc[p].ok THEN NewKey(loc[p].round) ELSE RoundKey(1)
           inner == IF loc[p].ok /\ url \in DOMAIN Responses
                    THEN Responses[url] ELSE EmptyMap
       IN  /\ Responses' = MapPut(Responses, url, MapPut(inner, key, arg[p]))
           /\ hist' = Append(hist, [url |-> url, key |-> key, rec |-> arg[p],
                                    val |-> heap[arg[p]], gen |-> gen[url]])
    /\ mu' = Unlock(mu, p)
    /\ Return(p, [op |-> "add", err |-> FALSE])
    /\ UNCHANGED <<envVars, heap, counters, Info, compVars, gen, sets>>

\* a caller calls GetResponse of the store it holds
CallGet(p) ==
    /\ pc[p] = "idle"
    /\ \E u \in URLs : arg' = [arg EXCEPT ![p] = u]
    /\ Goto(p, IF pack = "ResponsePack" THEN "get_rlock" ELSE "cget_rlock")
    /\ ret' = [ret EXCEPT ![p] = NoRet]
    /\ UNCHANGED <<envVars, heap, plainVars, compVars, loc, hist, gen, sets>>

\* variation: GetResponse without r.mu.RLock()
GetRLockSkipped(p) ==
    /\ pc[p] = "get_rlock"
    /\ Goto(p, "get_read")
    /\ UNCHANGED <<envVars, heap, plainVars, compVars, arg, loc, ret, hist, gen, sets>>

\* r.mu.RLock()
GetRLock(p) ==
    /\ pc[p] = "get_rlock"
    /\ CanRLock(mu)
    /\ mu' = RLock(mu, p)
    /\ Goto(p, "get_read")
    /\ UNCHANGED <<envVars, heap, plainData, Info, compVars, arg, loc, ret,
                   hist, gen, sets>>

\* the lookup, the range over the inner map, the deferred RUnlock: val is
\* the slice of pointers returned, seen the field values they show on return
GetRead(p) ==
    /\ pc[p] = "get_read"
    /\ IF arg[p] \notin DOMAIN Responses
       THEN Return(p, [op |-> "get", err |-> TRUE, url |-> arg[p]])
       ELSE \E order \in Orders(DOMAIN Responses[arg[p]]) :
               Return(p, [op |-> "get", err |-> FALSE, url |-> arg[p],
                          val |-> [i \in DOMAIN order |-> Responses[arg[p]][order[i]]],
                          seen |-> [i \in DOMAIN order |->
                                      heap[Responses[arg[p]][order[i]]]]])
    /\ mu' = RUnlock(mu, p)
    /\ UNCHANGED <<envVars, heap, plainData, Info, compVars, hist, gen, sets>>

\* a caller calls GetKeysOfResponses, Len, ToString, Calculate or GetErrorReport
CallRead(p) ==
    /\ pc[p] = "idle"
    /\ pack = "ResponsePack"
    /\ \E l \in {"keys_rlock", "len_rlock", "ts_rlock", "calc_lock", "er_len_rlock"} :
          Goto(p, l)
    /\ ret' = [ret EXCEPT ![p] = NoRet]
    /\ UNCHANGED <<envVars, heap, plainVars, compVars, arg, loc, hist, gen, sets>>

\* p.mu.RLock() of GetKeysOfResponses, Len, ToString and GetErrorReport
ReadRLock(p) ==
    /\ pc[p] \in {"keys_rlock", "len_rlock", "ts_rlock", "er_len_rlock", "er_rlock"}
    /\ CanRLock(mu)
    /\ mu' = RLock(mu, p)
    /\ Goto(p, CASE pc[p] = "keys_rlock" -> "keys_read"
                 [] pc[p] = "len_rlock" -> "len_read"
                 [] pc[p] = "ts_rlock" -> "ts_read"
                 [] pc[p] = "er_len_rlock" -> "er_len_read"
                 [] pc[p] = "er_rlock" -> "er_read")
    /\ UNCHANGED <<envVars, heap, plainData, Info, compVars, arg, loc, ret,
                   hist, gen, sets>>

\* GetKeysOfResponses: the keys of the URL map
KeysRead(p) ==
    /\ pc[p] = "keys_read"
    /\ Return(p, [op |-> "keys", err |-> FALSE, val |-> DOMAIN Responses])
    /\ mu' = RUnlock(mu, p)
    /\ UNCHANGED <<envVars, heap, plainData, Info, compVars, hist, gen, sets>>

\* variation: Len counts the rounds of every URL
LenReadCountsRounds(p) ==
    /\ pc[p] = "len_read"
    /\ Return(p, [op |-> "len", err |-> FALSE,
                  val |-> SumLen(Responses, DOMAIN Responses)])
    /\ mu' = RUnlock(mu, p)
    /\ UNCHANGED <<envVars, heap, plainData, Info, compVars, hist, gen, sets>>

\* Len: len(p.Responses)
LenRead(p) ==
    /\ pc[p] = "len_read"
    /\ Return(p, [op |-> "len", err |-> FALSE, val |-> Cardinality(DOMAIN Responses)])
    /\ mu' = RUnlock(mu, p)
    /\ UNCHANGED <<envVars, heap, plainData, Info, compVars, hist, gen, sets>>

\* ToString: the counters, the ratios and the info map are read into a string
ToStringRead(p) ==
    /\ pc[p] = "ts_read"
    /\ Return(p, [op |-> "tostring", err |-> FALSE])
    /\ mu' = RUnlock(mu, p)
    /\ UNCHANGED <<envVars, heap, plainData, Info, compVars, hist, gen, sets>>

\* Calculate: p.mu.Lock()
CalcLock(p) ==
    /\ pc[p] = "calc_lock"
    /\ CanLock(mu)
    /\ mu' = Lock(mu, p)
    /\ Goto(p, "calc_do")
    /\ UNCHANGED <<envVars, heap, plainData, Info, compVars, arg, loc, ret,
                   hist, gen, sets>>

\* Calculate: the ratios from the counters, nothing when Total is 0
CalcDo(p) ==
    /\ pc[p] = "calc_do"
    /\ SuccessRatio' = NextRatio(SuccessRatio, Success, Total)
    /\ FailureRatio' = NextRatio(FailureRatio, Failure, Total)
    /\ mu' = Unlock(mu, p)
    /\ Return(p, [op |-> "calculate", err |-> FALSE])
    /\ UNCHANGED <<envVars, heap, Responses, Total, Success, Failure, Info,
                   compVars, hist, gen, sets>>

\* GetErrorReport: if p.Len() == 0, read under Len's own RLock
ErLenRead(p) ==
    /\ pc[p] = "er_len_read"
    /\ IF Cardinality(DOMAIN Responses) = 0
       THEN Return(p, [op |-> "errorreport", err |-> TRUE])
       ELSE Goto(p, "er_rlock") /\ UNCHANGED <<arg, loc, ret>>
    /\ mu' = RUnlock(mu, p)
    /\ UNCHANGED <<envVars, heap, plainData, Info, compVars, hist, gen, sets>>

\* variation: the status test of the report without its negation
SucceedingKeys(url) ==
    {k \in DOMAIN Responses[url] : IsSuccess(heap[Responses[url][k]].StatusCode)}

\* the round keys of url whose record has a non-success status
FailingKeys(url) ==
    {k \in DOMAIN Responses[url] : ~IsSuccess(heap[Responses[url][k]].StatusCode)}

\* variation: GetErrorReport returns an error when no record failed, as
\* GetErrorReportString does
ErReadNeedsFailure(p) ==
    /\ pc[p] = "er_read"
    /\ LET failing == {u \in DOMAIN Responses : FailingKeys(u) # {}}
       IN  IF failing = {}
           THEN Return(p, [op |-> "errorreport", err |-> TRUE])
           ELSE \E last \in [failing -> {RoundKey(n) : n \in 1 .. MaxAdds + 1}] :
                   /\ \A u \in failing : last[u] \in FailingKeys(u)
                   /\ Return(p, [op |-> "errorreport", err |-> FALSE,
                                 val |-> [u \in failing |->
                                            MapPut(EmptyMap, last[u], Responses[u][last[u]])]])
    /\ mu' = RUnlock(mu, p)
    /\ UNCHANGED <<envVars, heap, plainData, Info, compVars, hist, gen, sets>>

\* GetErrorReport: the nested range; output[outKey] is made anew at every
\* failing round, so the round visited last is the one that stays
ErRead(p) ==
    /\ pc[p] = "er_read"
    /\ LET failing == {u \in DOMAIN Responses : FailingKeys(u) # {}}
       IN  \E last \in [failing -> {RoundKey(n) : n \in 1 .. MaxAdds + 1}] :
              /\ \A u \in failing : last[u] \in FailingKeys(u)
              /\ Return(p, [op |-> "errorreport", err |-> FALSE,
                            val |-> [u \in failing |->
                                       MapPut(EmptyMap, last[u], Responses[u][last[u]])]])
    /\ mu' = RUnlock(mu, p)
    /\ UNCHANGED <<envVars, heap, plainData, Info, compVars, hist, gen, sets>>

\* a caller calls AddInfo of the store it holds
CallAddInfo(p) ==
    /\ pc[p] = "idle"
    /\ \E k \in InfoKeys, v \in InfoVals : arg' = [arg EXCEPT ![p] = <<k, v>>]
    /\ Goto(p, IF pack = "ResponsePack" THEN "info_write" ELSE "cinfo_lock")
    /\ ret' = [ret EXCEPT ![p] = NoRet]
    /\ UNCHANGED <<envVars, heap, plainVars, compVars, loc, hist, gen, sets>>

\* ResponsePack.AddInfo: p.Info[key] = value
InfoWrite(p) ==
    /\ pc[p] = "info_write"
    /\ Info' = MapPut(Info, arg[p][1], arg[p][2])
    /\ Return(p, [op |-> "addinfo", err |-> FALSE])
    /\ UNCHANGED <<envVars, heap, plainData, mu, compVars, hist, gen, sets>>

(* ------------------------------ CompressResponsePack ------------------- *)

\* r.mu.Lock() of AddResponse
CAddLock(p) ==
    /\ pc[p] = "cadd_lock"
    /\ CanLock(cmu)
    /\ cmu' = Lock(cmu, p)
    /\ Goto(p, "cadd_check")
    /\ UNCHANGED <<envVars, heap, plainVars, CompressedResponses, MetaInfo, arg,
                   loc, ret, hist, gen, sets>>

\* _, ok := r.CompressedResponses[response.Url], and the count of the rounds
CAddCheck(p) ==
    /\ pc[p] = "cadd_check"
    /\ LET url == heap[arg[p]].Url
           ok == url \in DOMAIN CompressedResponses
       IN  loc' = [loc EXCEPT ![p] =
                     [blob |-> loc[p].blob, ok |-> ok,
                      round |-> IF ok THEN Cardinality(DOMAIN CompressedResponses[url])
                                      ELSE 0]]
    /\ Goto(p, "cadd_store")
    /\ UNCHANGED <<envVars, heap, plainVars, compVars, arg, ret, hist, gen, sets>>

\* the blob is stored under its round key, the deferred Unlock runs
CAddStore(p) ==
    /\ pc[p] = "cadd_store"
    /\ LET url == heap[arg[p]].Url
           key == IF loc[p].ok THEN NewKey(loc[p].round) ELSE RoundKey(1)
           inner == IF loc[p].ok /\ url \in DOMAIN CompressedResponses
                    THEN CompressedResponses[url] ELSE EmptyMap
       IN  /\ CompressedResponses' =
                 MapPut(CompressedResponses, url, MapPut(inner, key, loc[p].blob))
           /\ hist' = Append(hist, [url |-> url, key |-> key, rec |-> arg[p],
                                    val |-> heap[arg[p]], gen |-> gen[url]])
    /\ cmu' = Unlock(cmu, p)
    /\ Return(p, [op |-> "add", err |-> FALSE])
    /\ UNCHANGED <<envVars, heap, plainVars, MetaInfo, gen, sets>>

\* r.mu.RLock() of GetResponse
CGetRLock(p) ==
    /\ pc[p] = "cget_rlock"
    /\ CanRLock(cmu)
    /\ cmu' = RLock(cmu, p)
    /\ Goto(p, "cget_lookup")
    /\ UNCHANGED <<envVars, heap, plainVars, CompressedResponses, MetaInfo, arg,
                   loc, ret, hist, gen, sets>>

\* responses, ok := r.CompressedResponses[url]; r.mu.RUnlock(): the local
\* `responses` is a reference to the inner map, not a copy of it
CGetLookup(p) ==
    /\ pc[p] = "cget_lookup"
    /\ IF arg[p] \notin DOMAIN CompressedResponses
       THEN Return(p, [op |-> "get", err |-> TRUE, url |-> arg[p]])
       ELSE /\ Goto(p, "cget_iter")
            /\ loc' = [loc EXCEPT ![p] = [live |-> TRUE, url |-> arg[p]]]
            /\ UNCHANGED <<arg, ret>>
    /\ cmu' = RUnlock(cmu, p)
    /\ UNCHANGED <<envVars, heap, plainVars, CompressedResponses, MetaInfo,
                   hist, gen, sets>>

\* the inner map a GetResponse holds: the one in the store while it is still
\* there, or the discarded map as it was when it left the store
HeldMap(p) ==
    IF loc[p].live THEN CompressedResponses[loc[p].url] ELSE loc[p].snap

\* an AddResponse is about to write into the inner map that p ranges over
WriterOnHeldMap(p) ==
    \E q \in Procs \ {p} :
        /\ pc[q] = "cadd_store"
        /\ loc[p].live
        /\ loc[q].ok
        /\ heap[arg[q]].Url = loc[p].url

\* the range over `responses` with NewResponseFromCompressed on every blob,
\* after the RUnlock; with a map write in flight the runtime may also throw
\* "concurrent map iteration and map write"
CGetIter(p) ==
    /\ pc[p] = "cget_iter"
    /\ \/ \E order \in Orders(DOMAIN HeldMap(p)) :
             Return(p, [op |-> "get", err |-> FALSE, url |-> arg[p],
                        seen |-> [i \in DOMAIN order |->
                                    NewResponseFromCompressed(HeldMap(p)[order[i]])]])
       \/ /\ WriterOnHeldMap(p)
          /\ Goto(p, "fatal")
          /\ UNCHANGED <<arg, loc, ret>>
    /\ UNCHANGED <<envVars, heap, plainVars, compVars, hist, gen, sets>>

\* a caller calls DeleteResponse, Clear or GetResponseCount
CallWrite(p) ==
    /\ pc[p] = "idle"
    /\ pack = "CompressResponsePack"
    /\ \/ \E u \in URLs : arg' = [arg EXCEPT ![p] = u] /\ Goto(p, "cdel_lock")
       \/ Goto(p, "clr_lock") /\ UNCHANGED arg
       \/ Goto(p, "cnt_lock") /\ UNCHANGED arg
    /\ ret' = [ret EXCEPT ![p] = NoRet]
    /\ UNCHANGED <<envVars, heap, plainVars, compVars, loc, hist, gen, sets>>

\* r.mu.Lock() of DeleteResponse, Clear, GetResponseCount and AddInfo
CWriteLock(p) ==
    /\ pc[p] \in {"cdel_lock", "clr_lock", "cnt_lock", "cinfo_lock"}
    /\ CanLock(cmu)
    /\ cmu' = Lock(cmu, p)
    /\ Goto(p, CASE pc[p] = "cdel_lock" -> "cdel_do"
                 [] pc[p] = "clr_lock" -> "clr_do"
                 [] pc[p] = "cnt_lock" -> "cnt_read"
                 [] pc[p] = "cinfo_lock" -> "cinfo_write")
    /\ UNCHANGED <<envVars, heap, plainVars, CompressedResponses, MetaInfo, arg,
                   loc, ret, hist, gen, sets>>

\* the inner maps of the URLs in gone leave the store: a GetResponse that
\* holds one keeps it as it is now
Detach(p, gone) ==
    [q \in Procs |->
        IF q # p /\ pc[q] = "cget_iter" /\ loc[q].live /\ loc[q].url \in gone
        THEN [live |-> FALSE, url |-> loc[q].url,
              snap |-> CompressedResponses[loc[q].url]]
        ELSE IF q = p THEN NoLoc ELSE loc[q]]

\* variation: a DeleteResponse that finds the URL makes the store anew
CDeleteDoMakesAnew(p) ==
    /\ pc[p] = "cdel_do"
    /\ IF arg[p] \notin DOMAIN CompressedResponses
       THEN /\ Return(p, [op |-> "delete", err |-> TRUE, url |-> arg[p]])
            /\ UNCHANGED <<CompressedResponses, gen>>
       ELSE /\ CompressedResponses' = EmptyMap
            /\ gen' = [u \in URLs |-> IF u \in DOMAIN CompressedResponses
                                        THEN gen[u] + 1 ELSE gen[u]]
            /\ pc' = [pc EXCEPT ![p] = After(p)]
            /\ ret' = [ret EXCEPT ![p] = [op |-> "delete", err |-> FALSE, url |-> arg[p]]]
            /\ loc' = Detach(p, DOMAIN CompressedResponses)
            /\ arg' = [arg EXCEPT ![p] = NoArg]
    /\ cmu' = Unlock(cmu, p)
    /\ UNCHANGED <<envVars, heap, plainVars, MetaInfo, hist, sets>>

\* variation: a DeleteResponse that finds nothing leaves an empty store
CDeleteDoResets(p) ==
    /\ pc[p] = "cdel_do"
    /\ IF arg[p] \notin DOMAIN CompressedResponses
       THEN /\ Return(p, [op |-> "delete", err |-> TRUE, url |-> arg[p]])
            /\ CompressedResponses' = EmptyMap
            /\ UNCHANGED gen
       ELSE /\ CompressedResponses' = MapDelete(CompressedResponses, arg[p])
            /\ gen' = [gen EXCEPT ![arg[p]] = @ + 1]
            /\ pc' = [pc EXCEPT ![p] = After(p)]
            /\ ret' = [ret EXCEPT ![p] = [op |-> "delete", err |-> FALSE, url |-> arg[p]]]
            /\ loc' = Detach(p, {arg[p]})
            /\ arg' = [arg EXCEPT ![p] = NoArg]
    /\ cmu' = Unlock(cmu, p)
    /\ UNCHANGED <<envVars, heap, plainVars, MetaInfo, hist, sets>>

\* DeleteResponse: not found, or delete(r.CompressedResponses, url)
CDeleteDo(p) ==
    /\ pc[p] = "cdel_do"
    /\ IF arg[p] \notin DOMAIN CompressedResponses
       THEN /\ Return(p, [op |-> "delete", err |-> TRUE, url |-> arg[p]])
            /\ UNCHANGED <<CompressedResponses, gen>>
       ELSE /\ CompressedResponses' = MapDelete(CompressedResponses, arg[p])
            /\ gen' = [gen EXCEPT ![arg[p]] = @ + 1]
            /\ pc' = [pc EXCEPT ![p] = After(p)]
            /\ ret' = [ret EXCEPT ![p] = [op |-> "delete", err |-> FALSE, url |-> arg[p]]]
            /\ loc' = Detach(p, {arg[p]})
            /\ arg' = [arg EXCEPT ![p] = NoArg]
    /\ cmu' = Unlock(cmu, p)
    /\ UNCHANGED <<envVars, heap, plainVars, MetaInfo, hist, sets>>

\* variation: Clear empties the metadata as well
ClearDoAlsoMeta(p) ==
    /\ pc[p] = "clr_do"
    /\ CompressedResponses' = EmptyMap
    /\ MetaInfo' = EmptyMap
    /\ gen' = [u \in URLs |-> IF u \in DOMAIN CompressedResponses
                                THEN gen[u] + 1 ELSE gen[u]]
    /\ pc' = [pc EXCEPT ![p] = After(p)]
    /\ ret' = [ret EXCEPT ![p] = [op |-> "clear", err |-> FALSE]]
    /\ loc' = Detach(p, DOMAIN CompressedResponses)
    /\ arg' = [arg EXCEPT ![p] = NoArg]
    /\ cmu' = Unlock(cmu, p)
    /\ UNCHANGED <<envVars, heap, plainVars, hist, sets>>

\* Clear: r.CompressedResponses = map[string]map[string][]byte{}
ClearDo(p) ==
    /\ pc[p] = "clr_do"
    /\ CompressedResponses' = EmptyMap
    /\ gen' = [u \in URLs |-> IF u \in DOMAIN CompressedResponses
                                THEN gen[u] + 1 ELSE gen[u]]
    /\ pc' = [pc EXCEPT ![p] = After(p)]
    /\ ret' = [ret EXCEPT ![p] = [op |-> "clear", err |-> FALSE]]
    /\ loc' = Detach(p, DOMAIN CompressedResponses)
    /\ arg' = [arg EXCEPT ![p] = NoArg]
    /\ cmu' = Unlock(cmu, p)
    /\ UNCHANGED <<envVars, heap, plainVars, MetaInfo, hist, sets>>

\* GetResponseCount: the sum of the sizes of the inner maps
CountRead(p) ==
    /\ pc[p] = "cnt_read"
    /\ Return(p, [op |-> "count", err |-> FALSE,
                  val |-> SumLen(CompressedResponses, DOMAIN CompressedResponses)])
    /\ cmu' = Unlock(cmu, p)
    /\ UNCHANGED <<envVars, heap, plainVars, CompressedResponses, MetaInfo,
                   hist, gen, sets>>

\* CompressResponsePack.AddInfo: r.MetaInfo[key] = value
CInfoWrite(p) ==
    /\ pc[p] = "cinfo_write"
    /\ MetaInfo' = MapPut(MetaInfo, arg[p][1], arg[p][2])
    /\ cmu' = Unlock(cmu, p)
    /\ Return(p, [op |-> "addinfo", err |-> FALSE])
    /\ UNCHANGED <<envVars, heap, plainVars, CompressedResponses, hist, gen, sets>>

(* ------------------------------ batch operations ----------------------- *)

\* every slice a caller may hand to BatchAddResponse
Batches ==
    UNION {[1 .. n -> RecIds \cup {Nil}] : n \in 0 .. MaxBatch}

NonNil(items) == Cardinality({i \in DOMAIN items : items[i] # Nil})

Min(a, b) == IF a < b THEN a ELSE b

\* where the caller of a batch operation stands while its goroutines run
BatchPcs == {"batch_send", "batch_wait", "bget_wait", "bdel_wait"}

\* make(chan ..., len(responses)) and make(chan ..., len(urls)): the capacity
\* of every channel of the batch call in progress
ChanCap ==
    LET c == CHOOSE p \in Actors : pc[p] \in BatchPcs
    IN  IF "items" \in DOMAIN loc[c] THEN Len(loc[c].items) ELSE Len(loc[c].urls)

\* the workers a batch call starts
Spawned(n) == {w \in Workers : w <= 100 + n}

\* ResponsePack.BatchAddResponse: maxWorkers goroutines, the i-th one bound
\* to responses[i]
BatchAddSpawn(p, items, ncpu) ==
    LET maxWorkers == Min(ncpu, Len(items))
    IN  /\ pc' = [q \in Procs |->
                    IF q = p THEN "batch_wait"
                    ELSE IF q \in Spawned(maxWorkers) THEN "w_start" ELSE pc[q]]
        /\ arg' = [q \in Procs |->
                    IF q \in Spawned(maxWorkers) THEN items[q - 100] ELSE arg[q]]
        /\ loc' = [loc EXCEPT ![p] =
                     [items |-> items, ncpu |-> ncpu, workers |-> maxWorkers,
                      before |-> Total]]
        /\ UNCHANGED responseCh

\* CompressResponsePack.BatchAddResponse: maxWorkers goroutines that range
\* over responseCh; the caller goes on to fill the channel
CBatchAddSpawn(p, items, ncpu) ==
    LET maxWorkers == Min(ncpu, Len(items))
    IN  /\ pc' = [q \in Procs |->
                    IF q = p THEN "batch_send"
                    ELSE IF q \in Spawned(maxWorkers) THEN "w_recv" ELSE pc[q]]
        /\ arg' = arg
        /\ loc' = [loc EXCEPT ![p] =
                     [items |-> items, ncpu |-> ncpu, workers |-> maxWorkers,
                      before |-> SumLen(CompressedResponses, DOMAIN CompressedResponses),
                      sent |-> 0]]
        /\ responseCh' = [buf |-> <<>>, closed |-> FALSE]

\* a caller calls BatchAddResponse of the store it holds
CallBatchAdd(p) ==
    /\ pc[p] = "idle"
    /\ \A w \in Workers : pc[w] = "unborn"
    /\ \E items \in Batches, ncpu \in 1 .. MaxCPU :
          /\ AddsStarted + NonNil(items) <= MaxAdds
          /\ IF pack = "ResponsePack"
             THEN BatchAddSpawn(p, items, ncpu)
             ELSE CBatchAddSpawn(p, items, ncpu)
    /\ ret' = [ret EXCEPT ![p] = NoRet]
    /\ errCh' = <<>>
    /\ UNCHANGED <<pack, resultCh, heap, plainVars, compVars, hist, gen, sets>>

\* variation: the caller of CompressResponsePack.BatchAddResponse goes on to
\* wg.Wait() without close(responseCh)
BatchSendNoClose(p) ==
    /\ pc[p] = "batch_send"
    /\ LET sent == loc[p].sent
       IN  IF sent < Len(loc[p].items)
           THEN /\ Len(responseCh.buf) < ChanCap
                /\ responseCh' = [responseCh EXCEPT
                                    !.buf = Append(@, loc[p].items[sent + 1])]
                /\ loc' = [loc EXCEPT ![p].sent = sent + 1]
                /\ UNCHANGED pc
           ELSE /\ Goto(p, "batch_wait")
                /\ UNCHANGED <<loc, responseCh>>
    /\ UNCHANGED <<pack, errCh, resultCh, heap, plainVars, compVars, arg, ret,
                   hist, gen, sets>>

\* responseCh <- response for the next item, then close(responseCh)
BatchSend(p) ==
    /\ pc[p] = "batch_send"
    /\ LET sent == loc[p].sent
       IN  IF sent < Len(loc[p].items)
           THEN /\ Len(responseCh.buf) < ChanCap
                /\ responseCh' = [responseCh EXCEPT
                                    !.buf = Append(@, loc[p].items[sent + 1])]
                /\ loc' = [loc EXCEPT ![p].sent = sent + 1]
                /\ UNCHANGED pc
           ELSE /\ responseCh' = [responseCh EXCEPT !.closed = TRUE]
                /\ Goto(p, "batch_wait")
                /\ UNCHANGED loc
    /\ UNCHANGED <<pack, errCh, resultCh, heap, plainVars, compVars, arg, ret,
                   hist, gen, sets>>

\* the goroutine of ResponsePack.BatchAddResponse calls p.AddResponse(response)
WStart(w) ==
    /\ pc[w] = "w_start"
    /\ AddEnter(w, arg[w])
    /\ UNCHANGED <<envVars, heap, plainVars, compVars, hist, gen, sets>>

\* for response := range responseCh: the next item, or the end of the
\* goroutine when the channel is closed and drained
WRecv(w) ==
    /\ pc[w] = "w_recv"
    /\ IF responseCh.buf # <<>>
       THEN /\ CAddEnter(w, Head(responseCh.buf))
            /\ responseCh' = [responseCh EXCEPT !.buf = Tail(@)]
       ELSE /\ responseCh.closed
            /\ Goto(w, "unborn")
            /\ UNCHANGED <<arg, loc, ret, responseCh>>
    /\ UNCHANGED <<pack, errCh, resultCh, heap, plainVars, compVars, hist, gen, sets>>

\* variation: the goroutine of CompressResponsePack.BatchAddResponse handles
\* one item and ends
WRetOnce(w) ==
    /\ pc[w] = "w_ret"
    /\ errCh' = IF ret[w].err THEN Append(errCh, ret[w]) ELSE errCh
    /\ Goto(w, "unborn")
    /\ ret' = [ret EXCEPT ![w] = NoRet]
    /\ UNCHANGED <<pack, responseCh, resultCh, heap, plainVars, compVars, arg, loc,
                   hist, gen, sets>>

\* the goroutine of a batch call has its result: if err != nil { errCh <-
\* err }, and for a get the list found goes to the result channel when it is
\* not nil (a send blocks while the channel is full); then the goroutine ends, or takes the next item when it is a
\* worker of CompressResponsePack.BatchAddResponse
WRet(w) ==
    /\ pc[w] = "w_ret"
    /\ ret[w].err => Len(errCh) < ChanCap
    /\ (ret[w].op = "get" /\ ~ret[w].err /\ Len(ret[w].seen) > 0) =>
          Len(resultCh) < ChanCap
    /\ errCh' = IF ret[w].err THEN Append(errCh, ret[w]) ELSE errCh
    /\ resultCh' = IF ret[w].op = "get" /\ ~ret[w].err /\ Len(ret[w].seen) > 0
                   THEN Append(resultCh, ret[w]) ELSE resultCh
    /\ Goto(w, IF ret[w].op = "add" /\ pack = "CompressResponsePack"
               THEN "w_recv" ELSE "unborn")
    /\ ret' = [ret EXCEPT ![w] = NoRet]
    /\ UNCHANGED <<pack, responseCh, heap, plainVars, compVars, arg, loc, hist,
                   gen, sets>>

\* wg.Wait(), close(errCh), the errors drained into errSlice and returned
BatchWait(p) ==
    /\ pc[p] = "batch_wait"
    /\ \A w \in Workers : pc[w] = "unborn"
    /\ Return(p, [op |-> "batchadd", err |-> errCh # <<>>, errs |-> Len(errCh),
                  items |-> loc[p].items, ncpu |-> loc[p].ncpu,
                  workers |-> loc[p].workers, before |-> loc[p].before])
    /\ errCh' = <<>>
    /\ UNCHANGED <<pack, responseCh, resultCh, heap, plainVars, compVars, hist,
                   gen, sets>>

Next ==
    \/ \E p \in Actors :
          CallAdd(p) \/ CallGet(p) \/ CallRead(p) \/ CallAddInfo(p) \/ CallWrite(p)
    \/ \E p \in Procs :
          \/ AddLock(p) \/ AddCount(p) \/ AddCheck(p) \/ AddStore(p)
          \/ GetRLock(p) \/ GetRead(p)
          \/ ReadRLock(p) \/ KeysRead(p) \/ LenRead(p) \/ ToStringRead(p)
          \/ CalcLock(p) \/ CalcDo(p) \/ ErLenRead(p) \/ ErRead(p)
          \/ InfoWrite(p)
          \/ CAddLock(p) \/ CAddCheck(p) \/ CAddStore(p)
          \/ CGetRLock(p) \/ CGetLookup(p) \/ CGetIter(p)
          \/ CWriteLock(p) \/ CDeleteDo(p) \/ ClearDo(p) \/ CountRead(p)
          \/ CInfoWrite(p)

Spec == Init /\ [][Next]_vars

\* one caller working alone: it adds, changes fields of its records, gets,
\* and deletes, clears and counts on the compressed store
NextCaller ==
    \/ \E r \in RecIds : SetField(r)
    \/ CallAdd(1) \/ CallGet(1) \/ CallWrite(1)
    \/ AddLock(1) \/ AddCount(1) \/ AddCheck(1) \/ AddStore(1)
    \/ GetRLock(1) \/ GetRead(1)
    \/ CAddLock(1) \/ CAddCheck(1) \/ CAddStore(1)
    \/ CGetRLock(1) \/ CGetLookup(1) \/ CGetIter(1)
    \/ CWriteLock(1) \/ CDeleteDo(1) \/ ClearDo(1) \/ CountRead(1)

SpecCaller == Init /\ [][NextCaller]_vars

\* one caller working alone on records it leaves as they are: every single
\* operation of the store it holds
NextSolo ==
    \/ CallAdd(1) \/ CallGet(1) \/ CallWrite(1) \/ CallRead(1) \/ CallAddInfo(1)
    \/ AddLock(1) \/ AddCount(1) \/ AddCheck(1) \/ AddStore(1)
    \/ GetRLock(1) \/ GetRead(1)
    \/ ReadRLock(1) \/ KeysRead(1) \/ LenRead(1) \/ ToStringRead(1)
    \/ CalcLock(1) \/ CalcDo(1) \/ ErLenRead(1) \/ ErRead(1)
    \/ InfoWrite(1) \/ CInfoWrite(1)
    \/ CAddLock(1) \/ CAddCheck(1) \/ CAddStore(1)
    \/ CGetRLock(1) \/ CGetLookup(1) \/ CGetIter(1)
    \/ CWriteLock(1) \/ CDeleteDo(1) \/ ClearDo(1) \/ CountRead(1)

SpecSolo == Init /\ [][NextSolo]_vars

\* one caller of the batch operations and the goroutines they start
NextBatch ==
    \/ CallBatchAdd(1) \/ BatchSend(1) \/ BatchWait(1)
    \/ \E w \in Workers :
          \/ WStart(w) \/ WRecv(w) \/ WRet(w)
          \/ AddLock(w) \/ AddCount(w) \/ AddCheck(w) \/ AddStore(w)
          \/ CAddLock(w) \/ CAddCheck(w) \/ CAddStore(w)

SpecBatch == Init /\ [][NextBatch]_vars

(* ------------------------------ batch operations over URLs ------------- *)

\* every list of URLs a caller may hand to a batch get or a batch delete
UrlLists == SeqsUpTo(URLs, MaxUrls)

\* for _, url := range urls { go func(url string) {...}(url) }: one goroutine
\* per item, which starts the single-item operation at entry; the caller
\* goes on to wg.Wait()
UrlSpawn(p, urls, entry, wait) ==
    /\ pc' = [q \in Procs |->
                IF q = p THEN wait
                ELSE IF q \in Spawned(Len(urls)) THEN entry ELSE pc[q]]
    /\ arg' = [q \in Procs |->
                IF q \in Spawned(Len(urls)) THEN urls[q - 100] ELSE arg[q]]

\* the URLs the errors of a channel are about, in channel order
ErrUrls(ch) == [i \in DOMAIN ch |-> ch[i].url]

\* a caller calls BatchGetResponse of the store it holds, on a machine of
\* ncpu processors (runtime.NumCPU(), which the operation does not read)
CallBatchGet(p) ==
    /\ pc[p] = "idle"
    /\ \A w \in Workers : pc[w] = "unborn"
    /\ \E urls \in UrlLists, ncpu \in 1 .. MaxCPU :
          /\ UrlSpawn(p, urls,
                      IF pack = "ResponsePack" THEN "get_rlock" ELSE "cget_rlock",
                      "bget_wait")
          /\ loc' = [loc EXCEPT ![p] = [urls |-> urls, ncpu |-> ncpu]]
    /\ ret' = [ret EXCEPT ![p] = NoRet]
    /\ errCh' = <<>>
    /\ resultCh' = <<>>
    /\ UNCHANGED <<pack, responseCh, heap, plainVars, compVars, hist, gen, sets>>

\* variation: CompressResponsePack.BatchGetResponse goes on to build the map
\* of the URLs found when some URL failed
BatchGetWaitKeepsPartial(p) ==
    /\ pc[p] = "bget_wait"
    /\ \A w \in Workers : pc[w] = "unborn"
    /\ Goto(p, "bget_lock")
    /\ loc' = [loc EXCEPT ![p] = [urls |-> loc[p].urls, errs |-> ErrUrls(errCh)]]
    /\ errCh' = <<>>
    /\ UNCHANGED <<arg, ret, resultCh>>
    /\ UNCHANGED <<pack, responseCh, heap, plainVars, compVars, hist, gen, sets>>

\* wg.Wait(), the channels closed, the errors drained; CompressResponsePack
\* returns (nil, errSlice) here when there is an error
BatchGetWait(p) ==
    /\ pc[p] = "bget_wait"
    /\ \A w \in Workers : pc[w] = "unborn"
    /\ IF pack = "CompressResponsePack" /\ errCh # <<>>
       THEN /\ Return(p, [op |-> "batchget", err |-> TRUE, errs |-> ErrUrls(errCh),
                          urls |-> loc[p].urls, hasMap |-> FALSE])
            /\ resultCh' = <<>>
       ELSE /\ Goto(p, "bget_lock")
            /\ loc' = [loc EXCEPT ![p] =
                         [urls |-> loc[p].urls, errs |-> ErrUrls(errCh)]]
            /\ UNCHANGED <<arg, ret, resultCh>>
    /\ errCh' = <<>>
    /\ UNCHANGED <<pack, responseCh, heap, plainVars, compVars, hist, gen, sets>>

\* r.mu.Lock() of BatchGetResponse, taken before the results are read
BatchGetLock(p) ==
    /\ pc[p] = "bget_lock"
    /\ IF pack = "ResponsePack"
       THEN CanLock(mu) /\ mu' = Lock(mu, p) /\ UNCHANGED cmu
       ELSE CanLock(cmu) /\ cmu' = Lock(cmu, p) /\ UNCHANGED mu
    /\ Goto(p, "bget_build")
    /\ UNCHANGED <<envVars, heap, plainData, Info, CompressedResponses, MetaInfo,
                   arg, loc, ret, hist, gen, sets>>

\* variation: the output map is made anew for every result
PlainEntryFresh(acc, result) ==
    MapPut(EmptyMap, heap[result[1]].Url,
           [k \in {RoundKey(i - 1) : i \in DOMAIN result} |-> result[k[2] + 1]])

\* ResponsePack.BatchGetResponse, one result: output[result[0].Url] is a new
\* map from "round_%d" of the index, counted from 0, to the record
PlainEntry(acc, result) ==
    MapPut(acc, heap[result[1]].Url,
           [k \in {RoundKey(i - 1) : i \in DOMAIN result} |-> result[k[2] + 1]])

RECURSIVE PlainOutput(_)
\* ResponsePack.BatchGetResponse: for result := range resultCh
PlainOutput(ch) ==
    IF ch = <<>> THEN EmptyMap
    ELSE PlainEntry(PlainOutput(SubSeq(ch, 1, Len(ch) - 1)), ch[Len(ch)].val)

RECURSIVE CEntry(_, _, _)
\* CompressResponsePack.BatchGetResponse, the first n records of one result:
\* responses[response.Url] is made anew for every record and given the one
\* key "round_%d" of index+1
CEntry(acc, resp, n) ==
    IF n = 0 THEN acc
    ELSE MapPut(CEntry(acc, resp, n - 1), resp[n].Url,
                MapPut(EmptyMap, RoundKey(n), resp[n]))

RECURSIVE COutput(_)
\* CompressResponsePack.BatchGetResponse: for resp := range respCh
COutput(ch) ==
    IF ch = <<>> THEN EmptyMap
    ELSE CEntry(COutput(SubSeq(ch, 1, Len(ch) - 1)),
                ch[Len(ch)].seen, Len(ch[Len(ch)].seen))

\* the result map is built from the result channel and returned with the
\* errors, the deferred Unlock runs
BatchGetBuild(p) ==
    /\ pc[p] = "bget_build"
    /\ Return(p, [op |-> "batchget", err |-> loc[p].errs # <<>>,
                  errs |-> loc[p].errs, urls |-> loc[p].urls, hasMap |-> TRUE,
                  val |-> IF pack = "ResponsePack" THEN PlainOutput(resultCh)
                                                   ELSE COutput(resultCh)])
    /\ IF pack = "ResponsePack"
       THEN mu' = Unlock(mu, p) /\ UNCHANGED cmu
       ELSE cmu' = Unlock(cmu, p) /\ UNCHANGED mu
    /\ resultCh' = <<>>
    /\ UNCHANGED <<pack, errCh, responseCh, heap, plainData, Info,
                   CompressedResponses, MetaInfo, hist, gen, sets>>

\* a caller calls BatchDeleteResponse of the compressed store, on a machine
\* of ncpu processors (runtime.NumCPU(), which the operation does not read)
CallBatchDelete(p) ==
    /\ pc[p] = "idle"
    /\ pack = "CompressResponsePack"
    /\ \A w \in Workers : pc[w] = "unborn"
    /\ \E urls \in UrlLists, ncpu \in 1 .. MaxCPU :
          /\ UrlSpawn(p, urls, "cdel_lock", "bdel_wait")
          /\ loc' = [loc EXCEPT ![p] =
                       [urls |-> urls, ncpu |-> ncpu,
                        before |-> DOMAIN CompressedResponses]]
    /\ ret' = [ret EXCEPT ![p] = NoRet]
    /\ errCh' = <<>>
    /\ UNCHANGED <<pack, responseCh, resultCh, heap, plainVars, compVars, hist,
                   gen, sets>>

\* variation: BatchDeleteResponse returns the first error only
BatchDeleteWaitFirstErr(p) ==
    /\ pc[p] = "bdel_wait"
    /\ \A w \in Workers : pc[w] = "unborn"
    /\ Return(p, [op |-> "batchdelete", err |-> errCh # <<>>,
                  errs |-> ErrUrls(SubSeq(errCh, 1, Min(1, Len(errCh)))),
                  urls |-> loc[p].urls, before |-> loc[p].before])
    /\ errCh' = <<>>
    /\ UNCHANGED <<pack, responseCh, resultCh, heap, plainVars, compVars, hist,
                   gen, sets>>

\* wg.Wait(), close(errCh), the errors drained into errSlice and returned
BatchDeleteWait(p) ==
    /\ pc[p] = "bdel_wait"
    /\ \A w \in Workers : pc[w] = "unborn"
    /\ Return(p, [op |-> "batchdelete", err |-> errCh # <<>>,
                  errs |-> ErrUrls(errCh),
                  urls |-> loc[p].urls, before |-> loc[p].before])
    /\ errCh' = <<>>
    /\ UNCHANGED <<pack, responseCh, resultCh, heap, plainVars, compVars, hist,
                   gen, sets>>

\* one caller that adds records one by one, deletes, clears and counts, and
\* calls the batch get and the batch delete, and the goroutines these start
NextUrls ==
    \/ CallAdd(1) \/ CallBatchGet(1) \/ CallBatchDelete(1) \/ CallWrite(1)
    \/ AddLock(1) \/ AddCount(1) \/ AddCheck(1) \/ AddStore(1)
    \/ CAddLock(1) \/ CAddCheck(1) \/ CAddStore(1)
    \/ CWriteLock(1) \/ CDeleteDo(1) \/ ClearDo(1) \/ CountRead(1)
    \/ BatchGetWait(1) \/ BatchGetLock(1) \/ BatchGetBuild(1) \/ BatchDeleteWait(1)
    \/ \E w \in Workers :
          \/ GetRLock(w) \/ GetRead(w)
          \/ CGetRLock(w) \/ CGetLookup(w) \/ CGetIter(w)
          \/ CWriteLock(w) \/ CDeleteDo(w)
          \/ WRet(w)

SpecUrls == Init /\ [][NextUrls]_vars

(* ------------------------------ the codec alone ------------------------ *)

\* the bytes of the bodies handed to Compress: NUL, '{' and a byte that is
\* not UTF-8
CodecBodyBytes == {0, 123, 255}

\* the bytes of the header values handed to Compress: 'a', and the two bytes
\* of U+00E9, which are a rune together and not UTF-8 apart
CodecHeaderBytes == {97, 195, 169}

\* the records handed to Compress
CodecRecords ==
    {[MkResponse("api1", 200) EXCEPT !.Headers = h, !.Body = b,
                                      !.BodyLength = Len(b), !.RawResponse = raw] :
        h \in SeqsUpTo(CodecHeaderBytes, MaxHeader),
        b \in SeqsUpTo(CodecBodyBytes, MaxBody),
        raw \in {<<>>, <<255, 216>>}}

\* a caller that holds one record of CodecRecords and no store operation yet
InitCodec ==
    /\ pack = "CompressResponsePack"
    /\ \E r \in CodecRecords : heap = [Fixtures EXCEPT !["testResp1"] = r]
    /\ Responses = EmptyMap
    /\ Total = 0
    /\ Success = 0
    /\ Failure = 0
    /\ SuccessRatio = <<0, 1>>
    /\ FailureRatio = <<0, 1>>
    /\ Info = EmptyMap
    /\ mu = Unlocked
    /\ CompressedResponses = EmptyMap
    /\ MetaInfo = EmptyMap
    /\ cmu = Unlocked
    /\ pc = [p \in Procs |-> IF p \in Actors THEN "idle" ELSE "unborn"]
    /\ arg = [p \in Procs |-> NoArg]
    /\ loc = [p \in Procs |-> NoLoc]
    /\ ret = [p \in Procs |-> NoRet]
    /\ errCh = <<>>
    /\ responseCh = [buf |-> <<>>, closed |-> FALSE]
    /\ resultCh = <<>>
    /\ hist = <<>>
    /\ gen = [u \in URLs |-> 0]
    /\ sets = 0

\* compressed, err := r.Compress()
CodecCompress(p) ==
    /\ pc[p] = "idle"
    /\ arg' = [arg EXCEPT ![p] = "testResp1"]
    /\ loc' = [loc EXCEPT ![p] = [blob |-> Compress(heap["testResp1"])]]
    /\ ret' = [ret EXCEPT ![p] = NoRet]
    /\ Goto(p, "codec_dec")
    /\ UNCHANGED <<envVars, heap, plainVars, compVars, hist, gen, sets>>

\* decompressed, err := NewResponseFromCompressed(compressed)
CodecDecompress(p) ==
    /\ pc[p] = "codec_dec"
    /\ Return(p, [op |-> "roundtrip", err |-> FALSE, in |-> heap[arg[p]],
                  out |-> NewResponseFromCompressed(loc[p].blob)])
    /\ UNCHANGED <<envVars, heap, plainVars, compVars, hist, gen, sets>>

NextCodec == CodecCompress(1) \/ CodecDecompress(1)

SpecCodec == InitCodec /\ [][NextCodec]_vars

(* ------------------------------ data accesses -------------------------- *)

\* the shared data the next step of p reads ("r") or writes ("w"): the URL
\* map, an inner round map, the counters, the info map
Accesses(p) ==
    CASE pc[p] = "add_count" -> {<<"counters", "w">>}
      [] pc[p] = "add_check" ->
            {<<"Responses", "r">>, <<heap[arg[p]].Url, "r">>}
      [] pc[p] = "add_store" ->
            IF loc[p].ok THEN {<<"Responses", "r">>, <<heap[arg[p]].Url, "w">>}
                         ELSE {<<"Responses", "w">>}
      [] pc[p] = "get_read" -> {<<"Responses", "r">>, <<arg[p], "r">>}
      [] pc[p] \in {"keys_read", "len_read", "er_len_read"} -> {<<"Responses", "r">>}
      [] pc[p] = "er_read" -> {<<"Responses", "r">>} \cup {<<u, "r">> : u \in URLs}
      [] pc[p] = "ts_read" -> {<<"counters", "r">>, <<"Info", "r">>}
      [] pc[p] = "calc_do" -> {<<"counters", "w">>}
      [] pc[p] = "info_write" -> {<<"Info", "w">>}
      [] pc[p] \in {"cadd_check", "cnt_read"} -> {<<"CompressedResponses", "r">>}
      [] pc[p] = "cadd_store" ->
            IF loc[p].ok THEN {<<"CompressedResponses", "r">>, <<heap[arg[p]].Url, "w">>}
                         ELSE {<<"CompressedResponses", "w">>}
      [] pc[p] = "cget_lookup" -> {<<"CompressedResponses", "r">>}
      [] pc[p] = "cget_iter" -> IF loc[p].live THEN {<<loc[p].url, "r">>} ELSE {}
      [] pc[p] \in {"cdel_do", "clr_do"} -> {<<"CompressedResponses", "w">>}
      [] pc[p] = "cinfo_write" -> {<<"MetaInfo", "w">>}
      [] OTHER -> {}

\* the mutex of the store under test
StoreMu == IF pack = "ResponsePack" THEN mu ELSE cmu

\* p holds the store lock in a form that covers access a
Covered(p, a) ==
    IF a[2] = "w" THEN StoreMu.w = p ELSE (StoreMu.w = p \/ p \in StoreMu.r)

\* the next steps of p and q touch the same data and one of them writes it
Conflict(p, q) ==
    \E a \in Accesses(p), b \in Accesses(q) : a[1] = b[1] /\ "w" \in {a[2], b[2]}

(* ------------------------------ properties ----------------------------- *)

\* the committed adds of url into the inner map that is in the store now
Live(url) == {i \in DOMAIN hist : hist[i].url = url /\ hist[i].gen = gen[url]}

Rounds(n) == {RoundKey(i) : i \in 1 .. n}

Gapless(m) == \A u \in DOMAIN m : DOMAIN m[u] = Rounds(Cardinality(DOMAIN m[u]))

\* C1: in both stores, whatever Add, Delete and Clear calls ran, the round
\* keys of every URL present are exactly round_1 .. round_n, n being the
\* number of entries stored under the URL
C1_RoundKeysGapless == Gapless(Responses) /\ Gapless(CompressedResponses)

\* a URL of the compressed store holds two rounds
C1_Witness ==
    \E u \in DOMAIN CompressedResponses :
        Cardinality(DOMAIN CompressedResponses[u]) = 2

\* C2: adds of one URL that run concurrently get distinct round keys
\* round_1 .. round_N, and each added record is still stored under its key
C2_ConcurrentAddsDistinctRounds ==
    \A u \in URLs :
        /\ \A i, j \in Live(u) : i # j => hist[i].key # hist[j].key
        /\ {hist[i].key : i \in Live(u)} = Rounds(Cardinality(Live(u)))
        /\ \A i \in Live(u) :
              IF pack = "ResponsePack"
              THEN /\ u \in DOMAIN Responses
                   /\ hist[i].key \in DOMAIN Responses[u]
                   /\ Responses[u][hist[i].key] = hist[i].rec
              ELSE /\ u \in DOMAIN CompressedResponses
                   /\ hist[i].key \in DOMAIN CompressedResponses[u]
                   /\ CompressedResponses[u][hist[i].key] = Compress(hist[i].val)

\* two adds of one URL were in flight together and both have committed
C2_Witness ==
    /\ pack = "ResponsePack"
    /\ \E u \in URLs : Cardinality(Live(u)) = 2
    /\ \A p \in Actors : pc[p] = "idle" /\ ret[p].op = "add" /\ ~ret[p].err

\* C3: when no Add is in progress, Total = Success + Failure = the number of
\* Adds that returned nil, and Success counts those with a 2xx status
C3_TotalIsSuccessPlusFailure ==
    (pack = "ResponsePack" /\ \A p \in Procs : pc[p] \notin AddPcs) =>
        /\ Total = Success + Failure
        /\ Total = Len(hist)
        /\ Success = Cardinality({i \in DOMAIN hist : IsSuccess(hist[i].val.StatusCode)})

C3_Witness ==
    /\ \A p \in Procs : pc[p] \notin AddPcs
    /\ Total = 2
    /\ Success = 1
    /\ Failure = 1

\* C4: whenever a reader holds the shared lock of the Response Store, Total
\* equals the number of (URL, round) records stored
C4_ReaderSeesCountersWithRecords ==
    mu.r # {} => Total = SumLen(Responses, DOMAIN Responses)

\* a reader holds the lock while an Add waits for it
C4_Witness ==
    /\ mu.r # {}
    /\ Total >= 1
    /\ \E q \in Procs : pc[q] = "add_lock"

\* the number of nil items of a batch
Nils(items) == Len(items) - NonNil(items)

\* C5: BatchAdd on the Response Store returns one error per nil item and
\* raises Total by the number of non-nil items, for every length and every
\* number of CPUs
C5_BatchAddProcessesEveryItem ==
    \A p \in Actors :
        (pack = "ResponsePack" /\ pc[p] = "idle" /\ ret[p].op = "batchadd") =>
            /\ ret[p].errs = Nils(ret[p].items)
            /\ Total = ret[p].before + NonNil(ret[p].items)

\* C6: BatchAdd on the Compressed Response Store starts min(P, K) workers,
\* returns one error per nil item and raises the entry count by the number
\* of non-nil items
C6_CBatchAddProcessesEveryItem ==
    \A p \in Actors :
        (pack = "CompressResponsePack" /\ pc[p] = "idle" /\ ret[p].op = "batchadd") =>
            /\ ret[p].workers = Min(ret[p].ncpu, Len(ret[p].items))
            /\ ret[p].errs = Nils(ret[p].items)
            /\ SumLen(CompressedResponses, DOMAIN CompressedResponses)
                  = ret[p].before + NonNil(ret[p].items)

\* a batch longer than the number of CPUs, with a nil item, has returned
C6_Witness ==
    \E p \in Actors :
        /\ pack = "CompressResponsePack"
        /\ pc[p] = "idle"
        /\ ret[p].op = "batchadd"
        /\ Len(ret[p].items) > ret[p].ncpu
        /\ Nils(ret[p].items) = 1
        /\ NonNil(ret[p].items) = 2

\* C7: no GetResponse of the Compressed Response Store ranges over the round
\* map of a URL without the store lock while an AddResponse writes into it
C7_GetReadsRoundMapUnderLock ==
    \A p \in Procs :
        pc[p] = "cget_iter" =>
            \/ \A a \in Accesses(p) : Covered(p, a)
            \/ \A q \in Procs \ {p} : pc[q] \in {"cadd_check", "cadd_store"} => ~Conflict(p, q)

\* C8: on the Response Store, every access of Add, Get and Keys (and of the
\* other readers) to the URL map, an inner map or the counters is made under
\* the lock, exclusive for a write and shared for a read, and no read is
\* pending together with a write of the same data
C8_PlainAccessesUnderLock ==
    pack = "ResponsePack" =>
        /\ \A p \in Procs : \A a \in Accesses(p) : a[1] # "Info" => Covered(p, a)
        /\ \A p, q \in Procs :
              (p # q /\ pc[p] \in {"add_count", "add_check", "add_store"}
                     /\ pc[q] \in {"get_read", "keys_read"}) => ~Conflict(p, q)

\* an Add holds the lock before its commit while a Get waits for the lock
C8_Witness ==
    \E p, q \in Procs :
        /\ pc[p] = "add_store"
        /\ loc[p].ok
        /\ pc[q] = "get_rlock"
        /\ arg[q] = heap[arg[p]].Url

\* C9: in both stores AddInfo writes the metadata map under the exclusive
\* lock, so the write is never pending together with another access to it
C9_AddInfoUnderLock ==
    \A p \in Procs :
        pc[p] \in {"info_write", "cinfo_write"} =>
            \/ \A a \in Accesses(p) : Covered(p, a)
            \/ \A q \in Procs \ {p} : ~Conflict(p, q)

\* how often v occurs in the sequence s
Count(s, v) == Cardinality({i \in DOMAIN s : s[i] = v})

\* C10: a Get returns, for each round stored, the field values the record
\* had when it was added, whatever the caller wrote to the record since
C10_GetReturnsValuesAsAdded ==
    \A p \in Actors :
        (pc[p] = "idle" /\ ret[p].op = "get" /\ ~ret[p].err) =>
            /\ Len(ret[p].seen) = Cardinality(Live(ret[p].url))
            /\ \A i \in Live(ret[p].url) :
                  Count(ret[p].seen, hist[i].val)
                     = Cardinality({j \in Live(ret[p].url) : hist[j].val = hist[i].val})

\* C11: for every record r, NewResponseFromCompressed(r.Compress()) succeeds
\* and returns a record equal to r in every field
C11_CompressRoundTrip ==
    \A p \in Actors :
        ret[p].op = "roundtrip" => (~ret[p].err /\ ret[p].out = ret[p].in)

AddsOf(url) == {i \in DOMAIN hist : hist[i].url = url}

\* C13: on the Response Store a Get returns a list as long as the number of
\* successful Adds ever made with the URL, and a not-found error and no
\* list exactly when there was none
C13_GetLengthIsAddsOfUrl ==
    [][\A p \in Procs :
          (pack = "ResponsePack" /\ pc[p] = "get_read" /\ pc'[p] # "get_read") =>
              /\ ret'[p].err <=> AddsOf(arg[p]) = {}
              /\ ret'[p].err => "val" \notin DOMAIN ret'[p]
              /\ ~ret'[p].err => Len(ret'[p].val) = Cardinality(AddsOf(arg[p]))]_vars

\* a Get of the Response Store has returned both rounds of a URL
C13_Witness ==
    \E p \in Actors :
        /\ pack = "ResponsePack"
        /\ pc[p] = "idle"
        /\ ret[p].op = "get"
        /\ ~ret[p].err
        /\ Len(ret[p].val) = 2

\* C14: on the Compressed Response Store a Delete of a present URL removes
\* all its rounds at once, and a Get whose lookup comes after the Delete and
\* before the commit of a new Add of the URL fails with not-found
C14_DeleteRemovesAllRounds ==
    [][\A p \in Procs :
          /\ (pc[p] = "cdel_do" /\ pc'[p] # "cdel_do" /\ ~ret'[p].err) =>
                 /\ arg[p] \in DOMAIN CompressedResponses
                 /\ arg[p] \notin DOMAIN CompressedResponses'
                 /\ Live(arg[p])' = {}
          /\ (pc[p] = "cget_lookup" /\ pc'[p] # "cget_lookup" /\ Live(arg[p]) = {}) =>
                 /\ pc'[p] = After(p)
                 /\ ret'[p].err]_vars

\* one Delete removed the two rounds of a URL and a later Get did not find it
C14_Witness ==
    \E p, q \in Actors :
        /\ pc[p] = "idle" /\ ret[p].op = "get" /\ ret[p].err
        /\ pc[q] = "idle" /\ ret[q].op = "delete" /\ ~ret[q].err
        /\ ret[q].url = ret[p].url
        /\ gen[ret[p].url] = 1
        /\ Cardinality(AddsOf(ret[p].url)) = 2

\* C15: on the Compressed Response Store a Delete of a URL that is not
\* present returns a not-found error and changes neither the stored entries
\* nor the metadata
C15_DeleteAbsentChangesNothing ==
    [][\A p \in Procs :
          (pc[p] = "cdel_do" /\ pc'[p] # "cdel_do"
              /\ arg[p] \notin DOMAIN CompressedResponses) =>
              /\ ret'[p].op = "delete"
              /\ ret'[p].err
              /\ CompressedResponses' = CompressedResponses
              /\ MetaInfo' = MetaInfo]_vars

\* a Delete found nothing in a store that holds an entry and metadata
C15_Witness ==
    \E p \in Actors :
        /\ pc[p] = "idle"
        /\ ret[p].op = "delete"
        /\ ret[p].err
        /\ CompressedResponses # EmptyMap
        /\ MetaInfo # EmptyMap

\* the URLs that occur in the list urls
Listed(urls) == {urls[i] : i \in DOMAIN urls}

\* C16: BatchDelete on the Compressed Response Store returns one error for
\* each list item whose delete failed and none for the others, whatever the
\* interleaving of its goroutines: every listed URL that was present is
\* removed, one item of it succeeds and every other item of it, like every
\* item of an absent URL, yields a not-found error
C16_BatchDeleteOneErrorPerFailure ==
    \A p \in Actors :
        (pc[p] = "idle" /\ ret[p].op = "batchdelete") =>
            /\ \A u \in URLs :
                  Count(ret[p].errs, u) =
                     Count(ret[p].urls, u)
                        - (IF u \in Listed(ret[p].urls) \cap ret[p].before THEN 1 ELSE 0)
            /\ DOMAIN CompressedResponses = ret[p].before \ Listed(ret[p].urls)
            /\ ret[p].err <=> ret[p].errs # <<>>

\* a BatchDelete of a list naming one present URL twice has returned
C16_Witness ==
    \E p \in Actors :
        /\ pc[p] = "idle"
        /\ ret[p].op = "batchdelete"
        /\ Len(ret[p].urls) = 2
        /\ ret[p].urls[1] = ret[p].urls[2]
        /\ ret[p].urls[1] \in ret[p].before
        /\ Len(ret[p].errs) = 1

\* C17: BatchGet on the Response Store returns a result map with an entry
\* for every stored URL of the list and one error for every item naming a
\* URL never stored; a miss takes nothing away from the other URLs
C17_BatchGetKeepsHitsBesideMisses ==
    \A p \in Actors :
        (pack = "ResponsePack" /\ pc[p] = "idle" /\ ret[p].op = "batchget") =>
            /\ ret[p].hasMap
            /\ DOMAIN ret[p].val = Listed(ret[p].urls) \cap DOMAIN Responses
            /\ \A u \in URLs :
                  Count(ret[p].errs, u) =
                     IF u \in DOMAIN Responses THEN 0 ELSE Count(ret[p].urls, u)

\* a BatchGet of a stored and a never-stored URL has returned
C17_Witness ==
    \E p \in Actors :
        /\ pack = "ResponsePack"
        /\ pc[p] = "idle"
        /\ ret[p].op = "batchget"
        /\ Len(ret[p].urls) = 2
        /\ DOMAIN ret[p].val # {}
        /\ ret[p].errs # <<>>

\* C18: BatchGet on the Compressed Response Store returns the error list
\* alone, with no result map, when a URL of the list fails, and a result map
\* with an entry for every URL of the list and no error when none fails
C18_CBatchGetAllOrNothing ==
    \A p \in Actors :
        (pack = "CompressResponsePack" /\ pc[p] = "idle" /\ ret[p].op = "batchget") =>
            LET failed == {i \in DOMAIN ret[p].urls :
                              ret[p].urls[i] \notin DOMAIN CompressedResponses}
            IN  IF failed # {}
                THEN /\ ~ret[p].hasMap
                     /\ "val" \notin DOMAIN ret[p]
                     /\ Len(ret[p].errs) = Cardinality(failed)
                ELSE /\ ret[p].hasMap
                     /\ DOMAIN ret[p].val = Listed(ret[p].urls)
                     /\ ret[p].errs = <<>>

\* a BatchGet of a stored and an absent URL has returned errors and no map
C18_Witness ==
    \E p \in Actors :
        /\ pack = "CompressResponsePack"
        /\ pc[p] = "idle"
        /\ ret[p].op = "batchget"
        /\ Listed(ret[p].urls) \cap DOMAIN CompressedResponses # {}
        /\ Listed(ret[p].urls) \ DOMAIN CompressedResponses # {}
        /\ ~ret[p].hasMap

\* C19: ErrorReport on a Response Store that holds no record returns an
\* error and no map; on a store that holds a record it returns a map and no
\* error, also when no record failed
C19_ErrorReportFailsOnlyWhenEmpty ==
    [][\A p \in Procs :
          (ret'[p].op = "errorreport" /\ ret[p].op # "errorreport") =>
              /\ ret'[p].err <=> Len(hist) = 0
              /\ ret'[p].err <=> "val" \notin DOMAIN ret'[p]]_vars

\* an ErrorReport on a store whose records all succeeded returned an empty map
C19_Witness ==
    \E p \in Actors :
        /\ pc[p] = "idle"
        /\ ret[p].op = "errorreport"
        /\ ~ret[p].err
        /\ ret[p].val = EmptyMap
        /\ Responses # EmptyMap

\* the URLs with which a record of non-success status was added
FailedUrls ==
    {hist[i].url : i \in {j \in DOMAIN hist : ~IsSuccess(hist[j].val.StatusCode)}}

\* C20: the keys of the map ErrorReport returns on a non-empty Response
\* Store are the URLs that have a stored round of non-success status
C20_ErrorReportKeysAreFailedUrls ==
    [][\A p \in Procs :
          (ret'[p].op = "errorreport" /\ ret[p].op # "errorreport" /\ ~ret'[p].err) =>
              DOMAIN ret'[p].val = FailedUrls]_vars

\* an ErrorReport on a store with a 404 URL and a 200 URL has one entry
C20_Witness ==
    \E p \in Actors :
        /\ pc[p] = "idle"
        /\ ret[p].op = "errorreport"
        /\ ~ret[p].err
        /\ Cardinality(DOMAIN ret[p].val) = 1
        /\ Cardinality(DOMAIN Responses) = 2

\* the round keys under which a record of non-success status was added
\* with the URL url
FailedRounds(url) ==
    {hist[i].key : i \in {j \in AddsOf(url) : ~IsSuccess(hist[j].val.StatusCode)}}

\* C21: the entry of a URL in the ErrorReport of a Response Store holds
\* every stored round of the URL that has a non-success status, under its
\* round key
C21_ErrorReportHasEveryFailingRound ==
    [][\A p \in Procs :
          (ret'[p].op = "errorreport" /\ ret[p].op # "errorreport" /\ ~ret'[p].err) =>
              \A u \in DOMAIN ret'[p].val : DOMAIN ret'[p].val[u] = FailedRounds(u)]_vars

\* the adds whose round is in the compressed store now
LiveAdds == {i \in DOMAIN hist : hist[i].gen = gen[hist[i].url]}

\* C22: after any sequence of Add, Delete, BatchDelete and Clear on a
\* Compressed Response Store, Count() is the number of rounds stored, summed
\* over the URLs present; it is 0 on a new store and after a Clear
C22_CountIsSumOfRounds ==
    \A p \in Actors :
        (pack = "CompressResponsePack" /\ pc[p] = "idle" /\ ret[p].op = "count") =>
            /\ ret[p].val = Cardinality(LiveAdds)
            /\ Len(hist) = 0 => ret[p].val = 0
            /\ (\A u \in URLs : Live(u) = {}) => ret[p].val = 0

\* Count() returned 2 for a store whose one URL holds two rounds
C22_Witness ==
    \E p \in Actors :
        /\ pc[p] = "idle"
        /\ ret[p].op = "count"
        /\ ret[p].val = 2
        /\ Cardinality(DOMAIN CompressedResponses) = 1

NothingLive == \A u \in URLs : Live(u) = {}

\* C24: a Clear of the Compressed Response Store leaves no URL and keeps
\* the metadata as it was; until the next Add commits, every Get fails with
\* not-found and Count() is 0
C24_ClearEmptiesStoreKeepsMetadata ==
    [][\A p \in Procs :
          /\ (pc[p] = "clr_do" /\ pc'[p] # "clr_do") =>
                 /\ CompressedResponses' = EmptyMap
                 /\ MetaInfo' = MetaInfo
                 /\ NothingLive'
          /\ (NothingLive /\ pc[p] = "cget_lookup" /\ pc'[p] # "cget_lookup") =>
                 ret'[p].err
          /\ (NothingLive /\ pc[p] = "cnt_read" /\ pc'[p] # "cnt_read") =>
                 ret'[p].val = 0]_vars

\* a Clear has removed two entries from a store that has metadata
C24_Witness ==
    \E p \in Actors :
        /\ pc[p] = "idle"
        /\ ret[p].op = "clear"
        /\ Len(hist) = 2
        /\ gen # [u \in URLs |-> 0]
        /\ MetaInfo # EmptyMap

\* C26: Add(nil) on either store returns an error and leaves the stored
\* entries, Total, Success, Failure and both ratios as they were
C26_AddNilChangesNothing ==
    [][\A p \in Procs :
          (pc[p] = "idle" /\ pc'[p] = "idle" /\ ret'[p].op = "add"
              /\ ret'[p] # ret[p]) =>
              /\ ret'[p].err
              /\ UNCHANGED <<Responses, CompressedResponses, Total, Success,
                             Failure, SuccessRatio, FailureRatio>>]_vars

\* Add(nil) has returned its error on a store that holds a record
C26_Witness ==
    \E p \in Actors :
        /\ pc[p] = "idle"
        /\ ret[p].op = "add"
        /\ ret[p].err
        /\ Len(hist) >= 1


(* ------------------------------ the constructors alone ----------------- *)

\* the methods and status codes the callers hand to the constructors: the
\* constants of the codes package the repository uses, and the two values its
\* tests expect NewResponse to refuse
CtorMethods == {"GET", "POST", "INVALID"}
CtorCodes == {200, 201, 404, 9999}

\* codes.ValidateMethod returns nil
ValidateMethod(m) == m \in {"GET", "POST"}

\* codes.ValidateStatusCode returns nil
ValidateStatusCode(c) == c \in {200, 201, 404}

\* a nil pointer, slice or map argument, and one that is not nil
None == <<>>
Some(v) == <<v>>

\* data that json.Unmarshal refuses
NotJSON == [syntax |-> "error"]

\* NewResponse: the status code is validated, then the method; nil headers
\* become an empty map, a nil body an empty slice, a zero bodyLength len(body)
NewResponse(url, host, method, statusCode, headers, body, bodyLength, rawResponse) ==
    IF ~ValidateStatusCode(statusCode) \/ ~ValidateMethod(method)
    THEN [err |-> TRUE]
    ELSE LET b == IF body = None THEN <<>> ELSE body[1]
         IN  [err |-> FALSE,
              val |-> [Method |-> method, StatusCode |-> statusCode, Url |-> url,
                       Host |-> host,
                       Headers |-> IF headers = None THEN <<>> ELSE headers[1],
                       Body |-> b,
                       BodyLength |-> IF bodyLength = 0 THEN Len(b) ELSE bodyLength,
                       RawResponse |-> rawResponse]]

\* NewResponseFromJSON: nil and empty data are refused, and so is data that
\* json.Unmarshal refuses; what it decodes is returned as it is
NewResponseFromJSON(data) ==
    IF data = None \/ Len(data[1]) = 0 \/ data[1] = <<NotJSON>>
    THEN [err |-> TRUE]
    ELSE [err |-> FALSE, val |-> FromJSON(data[1][1])]

\* NewResponseFromCompressed with its failures: no gzip stream, or a stream
\* whose content json.Unmarshal refuses
FromCompressed(blob) ==
    IF blob[1] # "gzip" \/ blob[2] = NotJSON
    THEN [err |-> TRUE]
    ELSE [err |-> FALSE, val |-> NewResponseFromCompressed(blob)]

\* responseParser: http.ReadResponse takes a status line with a three-digit
\* code; there is no request, so the method is GET; the record is built by
\* NewResponse
responseParser(wire, url) ==
    IF wire = None \/ wire[1].code > 999
    THEN [err |-> TRUE]
    ELSE NewResponse(url, url, "GET", wire[1].code, Some(<<106>>),
                     Some(wire[1].body), Len(wire[1].body), <<72, 84, 84, 80>>)

\* the argument lists of NewResponse and the fields of a ConfigResponse
CtorArgs ==
    [url : URLs, method : CtorMethods, statusCode : CtorCodes,
     headers : {None, Some(<<106>>)}, body : {None, Some(<<123, 125>>)},
     bodyLength : {0, 2}]

\* JSON documents of a response record: json.Marshal of a Response literal,
\* or text written by another program
CtorDocs ==
    {ToJSON([MkResponse(u, c) EXCEPT !.Method = m]) :
        u \in URLs, c \in CtorCodes, m \in CtorMethods}

\* the byte slices handed to NewResponseFromJSON: nil, empty, or one text
CtorData == {None, Some(<<>>)} \cup {Some(<<d>>) : d \in CtorDocs \cup {NotJSON}}

\* the byte slices handed to NewResponseFromCompressed
CtorBlobs == {<<t, d>> : t \in {"gzip", "plain"}, d \in CtorDocs \cup {NotJSON}}

\* the raw HTTP responses handed to the parsers
CtorWires ==
    {None} \cup {Some(w) : w \in [code : CtorCodes, body : {<<>>, <<123, 125>>}]}

CtorOps == {"NewResponse", "NewResponseFromConfig", "NewResponseFromJSON",
            "NewResponseFromCompressed", "ParseRawHTTPResponse",
            "ParseStringHTTPResponse"}

\* the caller calls a constructor
CallCtor(p) ==
    /\ pc[p] = "idle"
    /\ \E op \in CtorOps :
          \E in \in CASE op \in {"NewResponse", "NewResponseFromConfig"} -> CtorArgs
                      [] op = "NewResponseFromJSON" -> CtorData
                      [] op = "NewResponseFromCompressed" -> CtorBlobs
                      [] OTHER -> {[wire |-> w, url |-> u] : w \in CtorWires, u \in URLs} :
             arg' = [arg EXCEPT ![p] = [op |-> op, in |-> in]]
    /\ ret' = [ret EXCEPT ![p] = NoRet]
    /\ Goto(p, "ctor")
    /\ UNCHANGED <<envVars, heap, plainVars, compVars, loc, hist, gen, sets>>

\* NewResponse and NewResponseFromConfig return
CtorNewResponse(p) ==
    /\ pc[p] = "ctor"
    /\ arg[p].op \in {"NewResponse", "NewResponseFromConfig"}
    /\ LET a == arg[p].in
       IN  Return(p, [op |-> arg[p].op] @@
                     NewResponse(a.url, "example.com", a.method, a.statusCode,
                                 a.headers, a.body, a.bodyLength, <<>>))
    /\ UNCHANGED <<envVars, heap, plainVars, compVars, hist, gen, sets>>

\* NewResponseFromJSON returns
CtorFromJSON(p) ==
    /\ pc[p] = "ctor"
    /\ arg[p].op = "NewResponseFromJSON"
    /\ Return(p, [op |-> arg[p].op] @@ NewResponseFromJSON(arg[p].in))
    /\ UNCHANGED <<envVars, heap, plainVars, compVars, hist, gen, sets>>

\* NewResponseFromCompressed returns
CtorFromCompressed(p) ==
    /\ pc[p] = "ctor"
    /\ arg[p].op = "NewResponseFromCompressed"
    /\ Return(p, [op |-> arg[p].op] @@ FromCompressed(arg[p].in))
    /\ UNCHANGED <<envVars, heap, plainVars, compVars, hist, gen, sets>>

\* ParseRawHTTPResponse and ParseStringHTTPResponse return
CtorParse(p) ==
    /\ pc[p] = "ctor"
    /\ arg[p].op \in {"ParseRawHTTPResponse", "ParseStringHTTPResponse"}
    /\ Return(p, [op |-> arg[p].op] @@ responseParser(arg[p].in.wire, arg[p].in.url))
    /\ UNCHANGED <<envVars, heap, plainVars, compVars, hist, gen, sets>>

NextCtor ==
    \/ CallCtor(1)
    \/ CtorNewResponse(1)
    \/ CtorFromJSON(1)
    \/ CtorFromCompressed(1)
    \/ CtorParse(1)

SpecCtor == Init /\ [][NextCtor]_vars

\* C25: whatever a constructor of a response record returns without an error
\* is a record whose method and whose status code are recognized values
C25_ConstructorsValidate ==
    \A p \in Actors :
        (pc[p] = "idle" /\ ret[p].op \in CtorOps /\ ~ret[p].err) =>
            /\ ValidateMethod(ret[p].val.Method)
            /\ ValidateStatusCode(ret[p].val.StatusCode)


(* ------------------------------ the batch operations, scheduled fairly - *)

\* the steps of goroutine p inside an operation it has begun
Run(p) ==
    \/ AddLock(p) \/ AddCount(p) \/ AddCheck(p) \/ AddStore(p)
    \/ CAddLock(p) \/ CAddCheck(p) \/ CAddStore(p)
    \/ GetRLock(p) \/ GetRead(p)
    \/ CGetRLock(p) \/ CGetLookup(p) \/ CGetIter(p)
    \/ CWriteLock(p) \/ CDeleteDo(p)
    \/ BatchSend(p) \/ BatchWait(p)
    \/ BatchGetWait(p) \/ BatchGetLock(p) \/ BatchGetBuild(p)
    \/ BatchDeleteWait(p)
    \/ WStart(p) \/ WRecv(p) \/ WRet(p)

\* one caller of the three batch operations, and the goroutines these start
NextLive ==
    \/ CallBatchAdd(1) \/ CallBatchGet(1) \/ CallBatchDelete(1)
    \/ \E p \in {1} \cup Workers : Run(p)

\* every step of Run moves its goroutine or the work queue
runVars == <<pc, responseCh>>

\* the Go scheduler runs every goroutine that can take a step
SpecLive ==
    Init /\ [][NextLive]_vars /\ \A p \in {1} \cup Workers : WF_runVars(Run(p))

\* C27: under fair scheduling every batch operation that was called returns,
\* whatever its list: the caller comes back from its wait and none of its
\* goroutines is left behind
C27_BatchOperationsTerminate ==
    (pc[1] \in BatchPcs) ~>
        (pc[1] = "idle" /\ \A w \in Workers : pc[w] = "unborn")

\* a batch add of a list longer than the parallelism has returned
C27_Witness ==
    /\ pc[1] = "idle"
    /\ ret[1].op = "batchadd"
    /\ Len(ret[1].items) > ret[1].ncpu
    /\ \A w \in Workers : pc[w] = "unborn"

\* C28: while a batch operation runs on a machine of P processors over K
\* items, no more than min(P, K) of its goroutines are alive
C28_WorkersBoundedByParallelism ==
    \A p \in Actors :
        pc[p] \in BatchPcs =>
            Cardinality({w \in Workers : pc[w] # "unborn"}) <=
                Min(loc[p].ncpu, ChanCap)


(* ------------------------------ ResponsePack over sync.Map ------------- *)

\* where a goroutine stands inside AddResponse of the sync.Map store
SyncPcs == {"s_count_read", "s_count_write", "s_total_read", "s_total_write",
            "s_calc", "s_load", "s_store"}

\* AddResponse calls of the sync.Map store begun with a non-nil record
SyncAddsStarted == Len(hist) + Cardinality({p \in Actors : pc[p] \in SyncPcs})

\* AddResponse calls of the sync.Map store that may be started in one
\* behaviour: one that stores a URL and two more that meet on it
MaxSyncAdds == MaxAdds + 1

\* origURL for round 0, "%s--round_%d" of origURL and round after that
SyncKey(url, round) == <<url, round>>

\* the store NewResponsePack of response.go returns, and the callers' records
InitSync ==
    /\ pack = "SyncResponsePack"
    /\ heap = Fixtures
    /\ Responses = EmptyMap
    /\ Total = 0
    /\ Success = 0
    /\ Failure = 0
    /\ SuccessRatio = <<0, 1>>
    /\ FailureRatio = <<0, 1>>
    /\ Info = EmptyMap
    /\ mu = Unlocked
    /\ CompressedResponses = EmptyMap
    /\ MetaInfo = EmptyMap
    /\ cmu = Unlocked
    /\ pc = [p \in Procs |-> IF p \in Actors THEN "idle" ELSE "unborn"]
    /\ arg = [p \in Procs |-> NoArg]
    /\ loc = [p \in Procs |-> NoLoc]
    /\ ret = [p \in Procs |-> NoRet]
    /\ errCh = <<>>
    /\ responseCh = [buf |-> <<>>, closed |-> FALSE]
    /\ resultCh = <<>>
    /\ hist = <<>>
    /\ gen = [u \in URLs |-> 0]
    /\ sets = 0

\* a caller calls AddResponse: the nil check
SyncCallAdd(p) ==
    /\ pc[p] = "idle"
    /\ \E r \in RecIds \cup {Nil} :
          IF r = Nil
          THEN Return(p, [op |-> "add", err |-> TRUE])
          ELSE /\ SyncAddsStarted < MaxSyncAdds
               /\ arg' = [arg EXCEPT ![p] = r]
               /\ loc' = [loc EXCEPT ![p] = NoLoc]
               /\ ret' = [ret EXCEPT ![p] = NoRet]
               /\ Goto(p, "s_count_read")
    /\ UNCHANGED <<envVars, heap, plainVars, compVars, hist, gen, sets>>

\* p.Success++ or p.Failure++, the read: no lock is held
SyncCountRead(p) ==
    /\ pc[p] = "s_count_read"
    /\ LET ok == IsSuccess(heap[arg[p]].StatusCode)
       IN  loc' = [loc EXCEPT ![p] =
                     [ok |-> ok, n |-> IF ok THEN Success ELSE Failure]]
    /\ Goto(p, "s_count_write")
    /\ UNCHANGED <<envVars, heap, plainVars, compVars, arg, ret, hist, gen, sets>>

\* p.Success++ or p.Failure++, the write
SyncCountWrite(p) ==
    /\ pc[p] = "s_count_write"
    /\ IF loc[p].ok
       THEN Success' = loc[p].n + 1 /\ UNCHANGED Failure
       ELSE Failure' = loc[p].n + 1 /\ UNCHANGED Success
    /\ Goto(p, "s_total_read")
    /\ UNCHANGED <<envVars, heap, Responses, Total, SuccessRatio, FailureRatio,
                   Info, mu, compVars, arg, loc, ret, hist, gen, sets>>

\* p.Total++, the read
SyncTotalRead(p) ==
    /\ pc[p] = "s_total_read"
    /\ loc' = [loc EXCEPT ![p] = [n |-> Total]]
    /\ Goto(p, "s_total_write")
    /\ UNCHANGED <<envVars, heap, plainVars, compVars, arg, ret, hist, gen, sets>>

\* p.Total++, the write
SyncTotalWrite(p) ==
    /\ pc[p] = "s_total_write"
    /\ Total' = loc[p].n + 1
    /\ Goto(p, "s_calc")
    /\ UNCHANGED <<envVars, heap, Responses, Success, Failure, SuccessRatio,
                   FailureRatio, Info, mu, compVars, arg, loc, ret, hist, gen, sets>>

\* p.Calculate(), then origURL := response.Url, urlKey := origURL, round := 0
SyncCalc(p) ==
    /\ pc[p] = "s_calc"
    /\ SuccessRatio' = IF Total # 0 /\ Success # 0 THEN <<Success, Total>>
                       ELSE SuccessRatio
    /\ FailureRatio' = IF Total # 0 /\ Failure # 0 THEN <<Failure, Total>>
                       ELSE FailureRatio
    /\ loc' = [loc EXCEPT ![p] = [url |-> heap[arg[p]].Url, round |-> 0]]
    /\ Goto(p, "s_load")
    /\ UNCHANGED <<envVars, heap, Responses, Total, Success, Failure, Info, mu,
                   compVars, arg, ret, hist, gen, sets>>

\* _, exists := p.Responses.Load(urlKey): the loop ends when the key is
\* free, else round++ and the next key is tried
SyncLoad(p) ==
    /\ pc[p] = "s_load"
    /\ IF SyncKey(loc[p].url, loc[p].round) \in DOMAIN Responses
       THEN loc' = [loc EXCEPT ![p].round = @ + 1] /\ UNCHANGED pc
       ELSE Goto(p, "s_store") /\ UNCHANGED loc
    /\ UNCHANGED <<envVars, heap, plainVars, compVars, arg, ret, hist, gen, sets>>

\* variation: the record itself is stored under every key
SyncStoreNoCopy(p) ==
    /\ pc[p] = "s_store"
    /\ LET key == SyncKey(loc[p].url, loc[p].round)
       IN  /\ Responses' = MapPut(Responses, key,
                                  [rec |-> arg[p], copy |-> FALSE,
                                   Url |-> SyncKey(loc[p].url, 0), by |-> p])
           /\ hist' = Append(hist, [url |-> loc[p].url, key |-> key, rec |-> arg[p],
                                    val |-> heap[arg[p]], gen |-> 0, by |-> p])
    /\ Return(p, [op |-> "add", err |-> FALSE])
    /\ UNCHANGED <<envVars, heap, counters, Info, mu, compVars, gen, sets>>

\* p.Responses.Store(urlKey, ...): the record itself under its own URL, a
\* copy whose Url is urlKey under a round key
SyncStore(p) ==
    /\ pc[p] = "s_store"
    /\ LET key == SyncKey(loc[p].url, loc[p].round)
       IN  /\ Responses' = MapPut(Responses, key,
                                  [rec |-> arg[p], copy |-> loc[p].round # 0,
                                   Url |-> key, by |-> p])
           /\ hist' = Append(hist, [url |-> loc[p].url, key |-> key, rec |-> arg[p],
                                    val |-> heap[arg[p]], gen |-> 0, by |-> p])
    /\ Return(p, [op |-> "add", err |-> FALSE])
    /\ UNCHANGED <<envVars, heap, counters, Info, mu, compVars, gen, sets>>

\* two goroutines that add to one sync.Map store
NextSync ==
    \E p \in Actors :
        \/ SyncCallAdd(p) \/ SyncCountRead(p) \/ SyncCountWrite(p)
        \/ SyncTotalRead(p) \/ SyncTotalWrite(p) \/ SyncCalc(p)
        \/ SyncLoad(p) \/ SyncStore(p)

SpecSync == InitSync /\ [][NextSync]_vars

\* C29: once the AddResponse calls of two goroutines on the sync.Map store
\* have returned, the records they added are stored under keys of their own,
\* each still under the key it was given, and Total, Success and Failure
\* count every one of them
C29_SyncAddsKeepDistinctKeys ==
    (\A p \in Actors : pc[p] = "idle") =>
        /\ \A i, j \in DOMAIN hist : i # j => hist[i].key # hist[j].key
        /\ \A i \in DOMAIN hist :
              /\ hist[i].key \in DOMAIN Responses
              /\ Responses[hist[i].key].rec = hist[i].rec
              /\ Responses[hist[i].key].by = hist[i].by
        /\ Total = Len(hist)
        /\ Success = Cardinality({i \in DOMAIN hist : IsSuccess(hist[i].val.StatusCode)})
        /\ Failure = Cardinality({i \in DOMAIN hist : ~IsSuccess(hist[i].val.StatusCode)})


\* the place of the i-th committed add among the committed adds of its URL
Nth(i) == Cardinality({j \in 1 .. i : hist[j].url = hist[i].url})

\* C30: on the plain store the k-th add committed with a URL was given the
\* key round_k, and round_k of that URL holds the record of that add
C30_KthAddIsRoundK ==
    pack = "ResponsePack" =>
        \A i \in DOMAIN hist :
            /\ hist[i].key = RoundKey(Nth(i))
            /\ hist[i].url \in DOMAIN Responses
            /\ RoundKey(Nth(i)) \in DOMAIN Responses[hist[i].url]
            /\ Responses[hist[i].url][RoundKey(Nth(i))] = hist[i].rec

\* two records were added with one URL, the first one is in round_1 and the
\* second one in round_2
C30_Witness ==
    /\ pack = "ResponsePack"
    /\ Len(hist) = 2
    /\ hist[1].url = hist[2].url
    /\ hist[1].rec # hist[2].rec
    /\ Responses[hist[1].url][RoundKey(1)] = hist[1].rec
    /\ Responses[hist[2].url][RoundKey(2)] = hist[2].rec


\* C31: on the compressed store the round key given to an add is round_n,
\* n being the place of the add among all the adds ever committed with its
\* URL, whatever Delete and Clear calls ran in between; so no round key of a
\* URL is given twice
C31_RoundIsNthEverAdded ==
    pack = "CompressResponsePack" =>
        /\ \A i \in DOMAIN hist : hist[i].key = RoundKey(Nth(i))
        /\ \A i, j \in DOMAIN hist :
              (i # j /\ hist[i].url = hist[j].url) => hist[i].key # hist[j].key


\* C32: no step of an operation of the plain store removes an entry or puts
\* another record in its place, and none lowers Total
C32_PlainStoreAppendOnly ==
    [][/\ \A u \in DOMAIN Responses :
             /\ u \in DOMAIN Responses'
             /\ \A k \in DOMAIN Responses[u] :
                   /\ k \in DOMAIN Responses'[u]
                   /\ Responses'[u][k] = Responses[u][k]
       /\ Total' >= Total]_vars

\* two records were added with one URL, a Calculate and a Get ran, and the
\* first record is still in round_1
C32_Witness ==
    /\ pack = "ResponsePack"
    /\ Len(hist) = 2
    /\ hist[1].url = hist[2].url
    /\ hist[1].rec # hist[2].rec
    /\ \E p, q \in Actors :
          /\ pc[p] = "idle" /\ ret[p].op = "calculate"
          /\ pc[q] = "idle" /\ ret[q].op = "get"
    /\ Responses[hist[1].url][RoundKey(1)] = hist[1].rec
    /\ Total = 2


(* ------------------------------ the ratios as float64 ------------------ *)

\* the largest Total of the stores the further adds start from
MaxCount == 20

RECURSIVE Pow2(_)
Pow2(n) == IF n = 0 THEN 1 ELSE 2 * Pow2(n - 1)

RECURSIVE Log2(_)
\* the exponent of the integer k >= 1 as a float64: 2^b <= k < 2^(b+1)
Log2(k) == IF k < 2 THEN 0 ELSE 1 + Log2(k \div 2)

RECURSIVE Shift(_, _)
\* minus the exponent of the quotient k/n, 1 <= k <= n: the least s with
\* k * 2^s >= n
Shift(k, n) == IF k >= n THEN 0 ELSE 1 + Shift(2 * k, n)

RECURSIVE LongDivide(_, _, _, _)
\* long division in base 2: the remainder and the last bit of the quotient
\* after the given number of further bits
LongDivide(r, n, bits, last) ==
    IF bits = 0 THEN <<r, last>>
    ELSE IF 2 * r >= n THEN LongDivide(2 * r - n, n, bits - 1, 1)
                       ELSE LongDivide(2 * r, n, bits - 1, 0)

\* float64(k) / float64(n), 1 <= k <= n: the quotient rounded to the nearest
\* number of 53 significant bits, ties to even; the result is
\* (k + d / 2^(52+s)) / n with d == RoundErr(k, n) and s == Shift(k, n)
RoundErr(k, n) ==
    LET res == LongDivide(k % n, n, 52 + Shift(k, n), 0)
        r == res[1]
    IN  IF 2 * r > n \/ (2 * r = n /\ res[2] = 1) THEN n - r ELSE 0 - r

Abs(x) == IF x < 0 THEN 0 - x ELSE x

\* ratio * float64(m) == float64(c) in float64 arithmetic, for the ratio that
\* float64(k) / float64(n) gave, or the ratio 0 when k is 0: the exact product
\* is (k*m + d*m / 2^(52+s)) / n, and it rounds to c when it is within half a
\* unit in the last place of c
TimesIs(ratio, m, c) ==
    LET k == ratio[1]
        n == ratio[2]
    IN  IF k = 0 \/ c = 0 THEN k = 0 /\ c = 0
        ELSE /\ k * m = c * n
             /\ LET d == RoundErr(k, n)
                    lim == n * Pow2(Log2(c) + Shift(k, n))
                IN  IF d < 0 /\ c = Pow2(Log2(c))
                    THEN 4 * Abs(d) * m <= lim
                    ELSE 2 * Abs(d) * m <= lim

\* a + b == 1 in float64 arithmetic, for two ratios: the exact sum rounds to
\* 1 when it is no more than 2^-53 above it and no more than 2^-54 below it
SumIsOne(a, b) ==
    IF a[1] = 0 \/ b[1] = 0
    THEN (a[1] = a[2] /\ b[1] = 0) \/ (b[1] = b[2] /\ a[1] = 0)
    ELSE /\ a[1] * b[2] + b[1] * a[2] = a[2] * b[2]
         /\ LET sa == Shift(a[1], a[2])
                sb == Shift(b[1], b[2])
                S == Max(sa, sb)
                T == RoundErr(a[1], a[2]) * b[2] * Pow2(S - sa)
                       + RoundErr(b[1], b[2]) * a[2] * Pow2(S - sb)
                lim == a[2] * b[2] * Pow2(S)
            IN  2 * T <= lim /\ 0 - 4 * T <= lim

\* a store to which s records of status 200 and then f records of status 404
\* were added, all with one URL
InitRatio ==
    /\ pack = "ResponsePack"
    /\ heap = Fixtures
    /\ Info = EmptyMap
    /\ mu = Unlocked
    /\ CompressedResponses = EmptyMap
    /\ MetaInfo = EmptyMap
    /\ cmu = Unlocked
    /\ pc = [p \in Procs |-> IF p \in Actors THEN "idle" ELSE "unborn"]
    /\ arg = [p \in Procs |-> NoArg]
    /\ loc = [p \in Procs |-> NoLoc]
    /\ ret = [p \in Procs |-> NoRet]
    /\ errCh = <<>>
    /\ responseCh = [buf |-> <<>>, closed |-> FALSE]
    /\ resultCh = <<>>
    /\ hist = <<>>
    /\ gen = [u \in URLs |-> 0]
    /\ sets = 0
    /\ \E s, f \in 0 .. MaxCount :
          /\ s + f <= MaxCount
          /\ Success = s
          /\ Failure = f
          /\ Total = s + f
          /\ SuccessRatio = (IF s = 0 THEN <<0, 1>> ELSE <<s, s + f>>)
          /\ FailureRatio = (IF f = 0 THEN <<0, 1>> ELSE <<f, s + f>>)
          /\ Responses =
                (IF s + f = 0 THEN EmptyMap
                 ELSE MapPut(EmptyMap, "api1",
                             [k \in Rounds(s + f) |->
                                IF k[2] <= s THEN "testResp1" ELSE "testResp3"]))

\* a caller calls Calculate
CallCalculate(p) ==
    /\ pc[p] = "idle"
    /\ Goto(p, "calc_lock")
    /\ ret' = [ret EXCEPT ![p] = NoRet]
    /\ UNCHANGED <<envVars, heap, plainVars, compVars, arg, loc, hist, gen, sets>>

\* one caller that goes on adding and calls Calculate
NextRatios ==
    \/ CallAdd(1) \/ CallCalculate(1)
    \/ AddLock(1) \/ AddCount(1) \/ AddCheck(1) \/ AddStore(1)
    \/ CalcLock(1) \/ CalcDo(1)

SpecRatio == InitRatio /\ [][NextRatios]_vars

\* C33 as it is stated: in float64 arithmetic SuccessRatio * Total == Success
\* and FailureRatio * Total == Failure, both ratios are 0 while Total is 0,
\* and SuccessRatio + FailureRatio == 1 whenever Total > 0
C33_RatiosTimesTotalAreCounters ==
    /\ TimesIs(SuccessRatio, Total, Success)
    /\ TimesIs(FailureRatio, Total, Failure)
    /\ Total = 0 => (SuccessRatio[1] = 0 /\ FailureRatio[1] = 0)
    /\ Total > 0 => SumIsOne(SuccessRatio, FailureRatio)

\* C33 as amended: each ratio is float64(counter) / float64(Total) of the
\* counters as they are now, and 0 while its counter is 0 (so both are 0
\* while Total is 0, also after a Calculate), and in float64 arithmetic
\* SuccessRatio + FailureRatio == 1 whenever Total > 0
C33_RatiosAreQuotientsOfCounters ==
    /\ SuccessRatio = (IF Success = 0 THEN <<0, 1>> ELSE <<Success, Total>>)
    /\ FailureRatio = (IF Failure = 0 THEN <<0, 1>> ELSE <<Failure, Total>>)
    /\ Total > 0 => SumIsOne(SuccessRatio, FailureRatio)

\* after a further Add of each kind and a Calculate the store holds 15
\* successes in 22 records
C33_Witness ==
    /\ pc[1] = "idle"
    /\ ret[1].op = "calculate"
    /\ Len(hist) = 2
    /\ hist[1].val.StatusCode # hist[2].val.StatusCode
    /\ Success = 15
    /\ Total = 22


\* C34: a BatchGet on the Response Store has returned: for every URL found
\* the inner map of the result has exactly the round keys stored under that
\* URL, and maps each of them to the record stored under that same key
C34_BatchGetKeepsRoundKeys ==
    (pack = "ResponsePack" /\ pc[1] = "idle" /\ ret[1].op = "batchget"
        /\ ret[1].hasMap) =>
        \A u \in DOMAIN ret[1].val :
            /\ u \in DOMAIN Responses
            /\ DOMAIN ret[1].val[u] = DOMAIN Responses[u]
            /\ \A k \in DOMAIN Responses[u] : ret[1].val[u][k] = Responses[u][k]

\* C35: an error-free BatchGet on the Compressed Response Store has
\* returned: for every URL the inner map of the result has as many records
\* as there are rounds stored under that URL
C35_CBatchGetReturnsEveryRound ==
    (pack = "CompressResponsePack" /\ pc[1] = "idle" /\ ret[1].op = "batchget"
        /\ ret[1].hasMap /\ ret[1].errs = <<>>) =>
        \A u \in DOMAIN ret[1].val :
            /\ u \in DOMAIN CompressedResponses
            /\ Cardinality(DOMAIN ret[1].val[u]) =
                  Cardinality(DOMAIN CompressedResponses[u])


ToLower(s) == [i \in DOMAIN s |-> IF s[i] >= 65 /\ s[i] <= 90 THEN s[i] + 32 ELSE s[i]]

\* strings.Contains
Contains(s, sub) ==
    \E i \in 0 .. Len(s) - Len(sub) : SubSeq(s, i + 1, i + Len(sub)) = sub

\* the header name "Content-Type"
ContentType == "Content-Type"

\* textTypes of isTextContent: "text/", "application/json", "application/xml",
\* "application/javascript", "application/x-www-form-urlencoded"
textTypes ==
    {<<116, 101, 120, 116, 47>>,
     <<97, 112, 112, 108, 105, 99, 97, 116, 105, 111, 110, 47, 106, 115, 111, 110>>,
     <<97, 112, 112, 108, 105, 99, 97, 116, 105, 111, 110, 47, 120, 109, 108>>,
     <<97, 112, 112, 108, 105, 99, 97, 116, 105, 111, 110, 47, 106, 97, 118, 97, 115, 99, 114, 105, 112, 116>>,
     <<97, 112, 112, 108, 105, 99, 97, 116, 105, 111, 110, 47, 120, 45, 119, 119, 119, 45, 102, 111, 114, 109, 45, 117, 114, 108, 101, 110, 99, 111, 100, 101, 100>>}

\* isTextContent: the Content-Type header exists and its lower-cased value
\* contains one of textTypes
isTextContent(headers) ==
    /\ ContentType \in DOMAIN headers
    /\ \E textType \in textTypes : Contains(ToLower(headers[ContentType]), textType)

RECURSIVE Valid(_)
\* utf8.Valid: the bytes are the UTF-8 encodings of runes, end to end
Valid(b) ==
    \/ Len(b) = 0
    \/ /\ RuneLen(b) > 0
       /\ Valid(SubSeq(b, RuneLen(b) + 1, Len(b)))

\* the character base64.StdEncoding writes for a sextet, '=' for the pad
B64Char(x) ==
    IF x <= 25 THEN 65 + x
    ELSE IF x <= 51 THEN 97 + (x - 26)
    ELSE IF x <= 61 THEN 48 + (x - 52)
    ELSE IF x = 62 THEN 43
    ELSE IF x = 63 THEN 47
    ELSE 61

\* base64.StdEncoding.EncodeToString
EncodeToString(b) == [i \in DOMAIN B64Enc(b) |-> B64Char(B64Enc(b)[i])]

\* Response.ToReadableJSON: the body as its own text when the headers say
\* text and it is UTF-8, the raw response as its own text when it is UTF-8,
\* base64 otherwise; Encoding names a field when the field is not UTF-8, and
\* json.Marshal leaves an empty string of Encoding out
ToReadableJSON(r) ==
    LET bodyContent == IF isTextContent(r.Headers) /\ Valid(r.Body)
                       THEN r.Body ELSE EncodeToString(r.Body)
        rawResponseContent == IF Valid(r.RawResponse)
                              THEN r.RawResponse ELSE EncodeToString(r.RawResponse)
        marked == {f \in {"body", "rawResponse"} :
                      IF f = "body" THEN ~Valid(r.Body) ELSE ~Valid(r.RawResponse)}
    IN  [method |-> r.Method, statusCode |-> r.StatusCode, url |-> r.Url,
         host |-> r.Host,
         headers |-> [k \in DOMAIN r.Headers |-> ToValidUTF8(r.Headers[k])],
         body |-> ToValidUTF8(bodyContent), bodyLength |-> r.BodyLength,
         rawResponse |-> ToValidUTF8(rawResponseContent),
         encoding |-> [f \in marked |-> "base64"]]

\* the bytes of the bodies and raw responses handed to ToReadableJSON: 'a',
\* and the two bytes of U+00E9, which are a rune together and not UTF-8 apart
ReadableBytes == {97, 195, 169}

\* the headers handed to ToReadableJSON: none, and a Content-Type of
\* "text/html", "Application/JSON", "image/png" or "application/pdf"
ReadableHeaders ==
    {EmptyMap} \cup
    {MapPut(EmptyMap, ContentType, ct) :
        ct \in {<<116, 101, 120, 116, 47, 104, 116, 109, 108>>,
                <<65, 112, 112, 108, 105, 99, 97, 116, 105, 111, 110, 47, 74, 83, 79, 78>>,
                <<105, 109, 97, 103, 101, 47, 112, 110, 103>>,
                <<97, 112, 112, 108, 105, 99, 97, 116, 105, 111, 110, 47, 112, 100, 102>>}}

\* the records handed to ToReadableJSON
ReadableRecords ==
    {[MkResponse("api1", 200) EXCEPT !.Headers = h, !.Body = b,
                                      !.BodyLength = Len(b), !.RawResponse = raw] :
        h \in ReadableHeaders,
        b \in SeqsUpTo(ReadableBytes, MaxBody),
        raw \in SeqsUpTo(ReadableBytes, MaxHeader)}

\* a caller that holds one record of ReadableRecords
InitReadable ==
    /\ pack = "ResponsePack"
    /\ \E r \in ReadableRecords : heap = [Fixtures EXCEPT !["testResp1"] = r]
    /\ Responses = EmptyMap
    /\ Total = 0
    /\ Success = 0
    /\ Failure = 0
    /\ SuccessRatio = <<0, 1>>
    /\ FailureRatio = <<0, 1>>
    /\ Info = EmptyMap
    /\ mu = Unlocked
    /\ CompressedResponses = EmptyMap
    /\ MetaInfo = EmptyMap
    /\ cmu = Unlocked
    /\ pc = [p \in Procs |-> IF p \in Actors THEN "idle" ELSE "unborn"]
    /\ arg = [p \in Procs |-> NoArg]
    /\ loc = [p \in Procs |-> NoLoc]
    /\ ret = [p \in Procs |-> NoRet]
    /\ errCh = <<>>
    /\ responseCh = [buf |-> <<>>, closed |-> FALSE]
    /\ resultCh = <<>>
    /\ hist = <<>>
    /\ gen = [u \in URLs |-> 0]
    /\ sets = 0

\* jsonData, err := r.ToReadableJSON()
ReadableCall(p) ==
    /\ pc[p] = "idle"
    /\ ret[p] = NoRet
    /\ Return(p, [op |-> "readable", err |-> FALSE, in |-> heap["testResp1"],
                  out |-> ToReadableJSON(heap["testResp1"])])
    /\ UNCHANGED <<envVars, heap, plainVars, compVars, hist, gen, sets>>

NextReadable == ReadableCall(1)

SpecReadable == InitReadable /\ [][NextReadable]_vars

\* C37: in the output of ToReadableJSON the body is base64 rather than its
\* own text if and only if the encoding side-map marks body as base64, and
\* likewise the raw response
C37_Base64IffMarked ==
    ret[1].op = "readable" =>
        LET in == ret[1].in
            out == ret[1].out
            Marked(f) == f \in DOMAIN out.encoding /\ out.encoding[f] = "base64"
        IN  /\ out.body \in {in.Body, EncodeToString(in.Body)}
            /\ out.rawResponse \in {in.RawResponse, EncodeToString(in.RawResponse)}
            /\ Marked("body") <=> out.body # in.Body
            /\ Marked("rawResponse") <=> out.rawResponse # in.RawResponse


\* C38: a DeleteResponse of the compressed store that finds its URL leaves
\* every other URL in the store with the round keys and blobs it had, and
\* leaves the metadata as it was
C38_CDeleteTouchesOneUrl ==
    [][\A p \in Procs :
          (pc[p] = "cdel_do" /\ pc'[p] # "cdel_do"
             /\ arg[p] \in DOMAIN CompressedResponses) =>
              /\ DOMAIN CompressedResponses' \ {arg[p]} =
                    DOMAIN CompressedResponses \ {arg[p]}
              /\ \A u \in DOMAIN CompressedResponses \ {arg[p]} :
                    CompressedResponses'[u] = CompressedResponses[u]
              /\ MetaInfo' = MetaInfo]_vars

\* one of two stored URLs has been deleted from a compressed store that
\* has metadata: the other one is stored still, and so is the metadata
C38_Witness ==
    /\ pack = "CompressResponsePack"
    /\ pc[1] = "idle"
    /\ ret[1].op = "delete"
    /\ ~ret[1].err
    /\ Len(hist) = 2
    /\ hist[1].url # hist[2].url
    /\ DOMAIN CompressedResponses = {hist[1].url, hist[2].url} \ {ret[1].url}
    /\ MetaInfo # EmptyMap


\* C39: in both map stores every URL in the outer map has at least one
\* round in its inner map, and a GetResponse that succeeds returns at least
\* one record, the first record BatchGetResponse reads the URL from
C39_NoUrlWithoutRounds ==
    /\ \A u \in DOMAIN Responses : DOMAIN Responses[u] # {}
    /\ \A u \in DOMAIN CompressedResponses : DOMAIN CompressedResponses[u] # {}
    /\ \A p \in Procs :
          (ret[p].op = "get" /\ ~ret[p].err) => Len(ret[p].seen) >= 1

\* a URL of the compressed store was deleted and added again, and a
\* GetResponse of it has returned its one round
C39_Witness ==
    \E p \in Actors :
        /\ pack = "CompressResponsePack"
        /\ pc[p] = "idle"
        /\ ret[p].op = "get"
        /\ ~ret[p].err
        /\ gen[ret[p].url] >= 1
        /\ ret[p].url \in DOMAIN CompressedResponses
        /\ Cardinality(DOMAIN CompressedResponses[ret[p].url]) = 1
        /\ Len(ret[p].seen) = 1

====
